---- MODULE Spec2Model ----
(***************************************************************************)
(* A model of the snn crate: the fault-injectable Register, the Neuron,    *)
(* the pipelined Network::run (one worker thread per layer, mpsc channels  *)
(* between them) and the fault campaign Network::simulate.                 *)
(*                                                                         *)
(* Numbers.  A Register holds an f64.  The model keeps the IEEE-754        *)
(* interchange layout of binary64 (sign | biased exponent | fraction, with *)
(* subnormals, signed zeros, infinities and NaNs, round to nearest even)   *)
(* but with narrower fields: ExpBits exponent bits and ManBits fraction    *)
(* bits instead of 11 and 52.  A value is the bit pattern itself, a        *)
(* number in 0..2^WordBits-1, so that a fault is a change of one bit of    *)
(* the pattern and arithmetic is computed from the pattern.                *)
(***************************************************************************)
EXTENDS Integers, Sequences, FiniteSets, TLC

\* ------------------------------------------------------------------ bounds
ExpBits == 5
ManBits == 6
\* number of time steps (columns of the input matrix) of a run
MaxT == 3
\* number of trials of a fault campaign
MaxIter == 2
\* widest layer, and most inputs, outputs and weights, of a network description
MaxWidth == 2
\* most layers of a network description
MaxDepth == 2
MaxElements == 2

\* ------------------------------------------------- the floating point word
WordBits == 1 + ExpBits + ManBits
SignBit == WordBits - 1
Bias == 2^(ExpBits - 1) - 1
EMin == 1 - Bias - ManBits
ExpOnes == 2^ExpBits - 1
Words == 0..(2^WordBits - 1)
BitPositions == 0..(WordBits - 1)

SignOf(w) == w \div 2^SignBit
ExpField(w) == (w \div 2^ManBits) % 2^ExpBits
Frac(w) == w % 2^ManBits
IsNaN(w) == ExpField(w) = ExpOnes /\ Frac(w) # 0
IsInf(w) == ExpField(w) = ExpOnes /\ Frac(w) = 0
IsZero(w) == ExpField(w) = 0 /\ Frac(w) = 0
\* a finite w is (-1)^SignOf(w) * Sig(w) * 2^Exp2(w)
Sig(w) == IF ExpField(w) = 0 THEN Frac(w) ELSE 2^ManBits + Frac(w)
Exp2(w) == IF ExpField(w) = 0 THEN EMin ELSE ExpField(w) - Bias - ManBits

MkWord(s, e, f) == s * 2^SignBit + e * 2^ManBits + f
PosZero == 0
Inf(s) == MkWord(s, ExpOnes, 0)
\* the NaN an invalid operation produces, and the quieted copy of an operand
DefaultNaN == MkWord(1, ExpOnes, 2^(ManBits - 1))
Quiet(w) == MkWord(SignOf(w), ExpOnes, (Frac(w) % 2^(ManBits - 1)) + 2^(ManBits - 1))
NaNOf(a, b) == IF IsNaN(a) THEN Quiet(a) ELSE IF IsNaN(b) THEN Quiet(b) ELSE DefaultNaN

RECURSIVE BitLen(_)
BitLen(n) == IF n = 0 THEN 0 ELSE 1 + BitLen(n \div 2)

\* n shifted right by k >= 0 bits, and whether a one was shifted out
Shr(n, k) == IF k >= BitLen(n) THEN 0 ELSE n \div 2^k
Lost(n, k) == IF k >= BitLen(n) THEN n # 0 ELSE n % 2^k # 0

\* The word of sign s, significand q < 2^(ManBits + 1) and exponent e2 >= EMin
\* (q < 2^ManBits only with e2 = EMin: a subnormal); too large is infinite.
Encode(s, q, e2) ==
  IF q >= 2^ManBits
  THEN IF e2 + Bias + ManBits >= ExpOnes THEN Inf(s)
       ELSE MkWord(s, e2 + Bias + ManBits, q - 2^ManBits)
  ELSE MkWord(s, 0, q)
\* a significand that rounding carried to 2^(ManBits + 1)
Renorm(s, q, e2) ==
  IF q = 2^(ManBits + 1) THEN Encode(s, 2^ManBits, e2 + 1) ELSE Encode(s, q, e2)
\* whether dropping the low drop > 0 bits of m rounds up: above half, or half
\* and the kept part odd
RoundsUp(m, drop, sticky) ==
  /\ drop - 1 < BitLen(m)
  /\ (m \div 2^(drop - 1)) % 2 = 1
  /\ (Lost(m, drop - 1) \/ sticky \/ Shr(m, drop) % 2 = 1)
RoundAt(s, m, e, sticky, drop) ==
  IF drop <= 0 THEN Encode(s, m * 2^(-drop), e + drop)
  ELSE Renorm(s, Shr(m, drop) + (IF RoundsUp(m, drop, sticky) THEN 1 ELSE 0), e + drop)
\* Round (-1)^s * (m + t) * 2^e to the nearest word, ties to even, where
\* 0 <= t < 1 and sticky says t > 0 (a caller that sets sticky passes an m
\* of at least ManBits + 2 bits, so t is below half a unit of the result).
RoundPack(s, m, e, sticky) ==
  IF m = 0 /\ ~sticky THEN MkWord(s, 0, 0)
  ELSE RoundAt(s, m, e, sticky,
               IF BitLen(m) - (ManBits + 1) > EMin - e
               THEN BitLen(m) - (ManBits + 1) ELSE EMin - e)

RoundInt(n, e) == RoundPack(IF n < 0 THEN 1 ELSE 0, IF n < 0 THEN -n ELSE n, e, FALSE)
\* an integer as a word (`k as f64`, and the literals of the source)
F64(n) == RoundInt(n, 0)

Neg(w) == IF SignOf(w) = 1 THEN w - 2^SignBit ELSE w + 2^SignBit
\* the signed significand of a finite word
SSig(w) == IF SignOf(w) = 1 THEN -Sig(w) ELSE Sig(w)

\* the sum of two finite words, Exp2(hi) >= Exp2(lo), not both zero
AddNear(n, e) == IF n = 0 THEN PosZero ELSE RoundInt(n, e)
AddFar(hi, lo, k) ==
  RoundPack(SignOf(hi),
            IF SignOf(hi) = SignOf(lo)
            THEN Sig(hi) * 2^(ManBits + 3) + Shr(Sig(lo), k)
            ELSE Sig(hi) * 2^(ManBits + 3) - Shr(Sig(lo), k)
                 - (IF Lost(Sig(lo), k) THEN 1 ELSE 0),
            Exp2(hi) - (ManBits + 3), Lost(Sig(lo), k))
AddFinite(hi, lo) ==
  IF Exp2(hi) - Exp2(lo) <= ManBits + 3
  THEN AddNear(SSig(hi) * 2^(Exp2(hi) - Exp2(lo)) + SSig(lo), Exp2(lo))
  ELSE AddFar(hi, lo, Exp2(hi) - Exp2(lo) - (ManBits + 3))

\* n1 + n2 on f64
F64Add(a, b) ==
  IF IsNaN(a) \/ IsNaN(b) THEN NaNOf(a, b)
  ELSE IF IsInf(a) THEN (IF IsInf(b) /\ SignOf(a) # SignOf(b) THEN DefaultNaN ELSE a)
  ELSE IF IsInf(b) THEN b
  ELSE IF IsZero(a) /\ IsZero(b)
       THEN (IF SignOf(a) = SignOf(b) THEN a ELSE PosZero)
  ELSE IF Exp2(a) >= Exp2(b) THEN AddFinite(a, b) ELSE AddFinite(b, a)

\* n1 - n2 on f64
F64Sub(a, b) == IF IsNaN(a) \/ IsNaN(b) THEN NaNOf(a, b) ELSE F64Add(a, Neg(b))

\* n1 * n2 on f64
F64Mul(a, b) ==
  IF IsNaN(a) \/ IsNaN(b) THEN NaNOf(a, b)
  ELSE IF IsInf(a) \/ IsInf(b)
       THEN (IF IsZero(a) \/ IsZero(b) THEN DefaultNaN
             ELSE Inf((SignOf(a) + SignOf(b)) % 2))
  ELSE RoundPack((SignOf(a) + SignOf(b)) % 2, Sig(a) * Sig(b), Exp2(a) + Exp2(b), FALSE)

\* the quotient of two finite words, b not zero: DivShift more bits of the
\* dividend give a quotient of at least ManBits + 3 bits
DivShift == 2 * ManBits + 4
DivFinite(s, a, b) ==
  RoundPack(s, (Sig(a) * 2^DivShift) \div Sig(b), Exp2(a) - Exp2(b) - DivShift,
            (Sig(a) * 2^DivShift) % Sig(b) # 0)
\* n1 / n2 on f64
F64Div(a, b) ==
  IF IsNaN(a) \/ IsNaN(b) THEN NaNOf(a, b)
  ELSE IF IsInf(a)
       THEN (IF IsInf(b) THEN DefaultNaN ELSE Inf((SignOf(a) + SignOf(b)) % 2))
  ELSE IF IsInf(b) THEN MkWord((SignOf(a) + SignOf(b)) % 2, 0, 0)
  ELSE IF IsZero(b)
       THEN (IF IsZero(a) THEN DefaultNaN ELSE Inf((SignOf(a) + SignOf(b)) % 2))
  ELSE IF IsZero(a) THEN MkWord((SignOf(a) + SignOf(b)) % 2, 0, 0)
  ELSE DivFinite((SignOf(a) + SignOf(b)) % 2, a, b)

\* x > 0.0 on f64
F64GeZero_Strict(w) == ~IsNaN(w) /\ ~IsZero(w) /\ SignOf(w) = 0
\* x >= 0.0 on f64
F64GeZero(w) == ~IsNaN(w) /\ (IsZero(w) \/ SignOf(w) = 0)

\* f64::exp.  The argument is reduced to r in [0, ln 2) and e^r summed from its
\* Taylor series in fixed point with FixBits fraction bits; the result is
\* rounded to the format (it is within one unit in the last place of e^x, as
\* the library function is).
FixBits == 14
Ln2Fix == 181704
RECURSIVE ExpSeries(_, _, _, _)
ExpSeries(r, term, n, acc) ==
  IF term = 0 THEN acc
  ELSE ExpSeries(r, (term * r + n * 2^(FixBits - 1)) \div (n * 2^FixBits), n + 1, acc + term)
\* e^(xf / 2^FixBits) for the fixed point xf, with k = floor(xf / ln 2)
ExpReduced(xf, k) ==
  RoundPack(0, ExpSeries(((xf * 16) - k * Ln2Fix + 8) \div 16, 2^FixBits, 1, 0),
            k - FixBits, FALSE)
ExpFixed(xf) == ExpReduced(xf, (xf * 16) \div Ln2Fix)
\* |x| in fixed point
FixMag(x) ==
  IF Exp2(x) >= -FixBits THEN Sig(x) * 2^(Exp2(x) + FixBits)
  ELSE Shr(Sig(x), -FixBits - Exp2(x))
F64Exp(x) ==
  IF IsNaN(x) THEN Quiet(x)
  ELSE IF IsInf(x) THEN (IF SignOf(x) = 1 THEN PosZero ELSE x)
  ELSE IF IsZero(x) THEN F64(1)
  ELSE IF BitLen(Sig(x)) + Exp2(x) > ExpBits
       THEN (IF SignOf(x) = 1 THEN PosZero ELSE Inf(0))
  ELSE ExpFixed(IF SignOf(x) = 1 THEN -FixMag(x) ELSE FixMag(x))

\* ---------------------------------------------------------------- Register
\* Option<T>
None == [some |-> FALSE, v |-> 0]
Some(x) == [some |-> TRUE, v |-> x]
Unwrap(o) == o.v

\* enum Damage
Working == [kind |-> "Working", bit_position |-> 0, time_step |-> 0]
StuckAt0(b) == [kind |-> "StuckAt0", bit_position |-> b, time_step |-> 0]
StuckAt1(b) == [kind |-> "StuckAt1", bit_position |-> b, time_step |-> 0]
TransientBitFlip(b, s) == [kind |-> "TransientBitFlip", bit_position |-> b, time_step |-> s]

\* the bits of a word (std::mem::transmute between f64 and u64 keeps them)
Bit(w, b) == (w \div 2^b) % 2
RECURSIVE FromBits(_, _)
FromBits(bits, b) == IF b = WordBits THEN 0 ELSE bits[b] * 2^b + FromBits(bits, b + 1)
\* a mask that is not inverted
BitNot_Same(mask) == mask
\* (1 as u64) << bit_position, and !mask
Shl1(bit_position) == 2^bit_position
BitNot(mask) == FromBits([b \in BitPositions |-> 1 - Bit(mask, b)], 0)

bitwise_and(value, mask) ==
  FromBits([b \in BitPositions |-> Bit(value, b) * Bit(mask, b)], 0)
\* an or that toggles the bits of the mask
bitwise_or_Toggle(value, mask) ==
  FromBits([b \in BitPositions |-> (Bit(value, b) + Bit(mask, b)) % 2], 0)
bitwise_or(value, mask) ==
  FromBits([b \in BitPositions |-> IF Bit(value, b) + Bit(mask, b) > 0 THEN 1 ELSE 0], 0)
\* an exclusive or that only sets bits
bitwise_xor_Or(value, mask) == bitwise_or(value, mask)
bitwise_xor(value, mask) ==
  FromBits([b \in BitPositions |-> (Bit(value, b) + Bit(mask, b)) % 2], 0)

\* a constructor that drops its argument
Register_new_Zero(value) == [value |-> PosZero, damage |-> Working]
Register_new(value) == [value |-> value, damage |-> Working]
apply_damage(self, damage) == [self EXCEPT !.damage = damage]
\* a write on which a stuck bit acts
write_value_Stuck(self, value) ==
  [self EXCEPT !.value = CASE self.damage.kind = "StuckAt0" ->
                                bitwise_and(value, BitNot(Shl1(self.damage.bit_position)))
                           [] self.damage.kind = "StuckAt1" ->
                                bitwise_or(value, Shl1(self.damage.bit_position))
                           [] OTHER -> value]
write_value(self, value) == [self EXCEPT !.value = value]

\* a read that takes a missing current step for a step other than the fault's
read_value_Lenient(self, current_time_step) ==
  CASE self.damage.kind = "Working" -> Some(self.value)
    [] self.damage.kind = "StuckAt0" ->
         Some(bitwise_and(self.value, BitNot(Shl1(self.damage.bit_position))))
    [] self.damage.kind = "StuckAt1" ->
         Some(bitwise_or(self.value, Shl1(self.damage.bit_position)))
    [] self.damage.kind = "TransientBitFlip" ->
         IF ~current_time_step.some \/ current_time_step.v # self.damage.time_step
         THEN Some(self.value)
         ELSE Some(bitwise_xor(self.value, Shl1(self.damage.bit_position)))
read_value(self, current_time_step) ==
  CASE self.damage.kind = "Working" -> Some(self.value)
    [] self.damage.kind = "StuckAt0" ->
         Some(bitwise_and(self.value, BitNot(Shl1(self.damage.bit_position))))
    [] self.damage.kind = "StuckAt1" ->
         Some(bitwise_or(self.value, Shl1(self.damage.bit_position)))
    [] self.damage.kind = "TransientBitFlip" ->
         IF ~current_time_step.some THEN None
         ELSE IF current_time_step.v # self.damage.time_step THEN Some(self.value)
         ELSE Some(bitwise_xor(self.value, Shl1(self.damage.bit_position)))

\* the arithmetic helpers: the result register after the call
\* a comparison with its operands exchanged
cmp_Swapped(r1, r2, res_reg, current_time_step) ==
  write_value(res_reg, F64Sub(Unwrap(read_value(r2, Some(current_time_step))),
                              Unwrap(read_value(r1, Some(current_time_step)))))
cmp(r1, r2, res_reg, current_time_step) ==
  write_value(res_reg, F64Sub(Unwrap(read_value(r1, Some(current_time_step))),
                              Unwrap(read_value(r2, Some(current_time_step)))))
add(r1, r2, res_reg, current_time_step) ==
  write_value(res_reg, F64Add(Unwrap(read_value(r1, Some(current_time_step))),
                              Unwrap(read_value(r2, Some(current_time_step)))))
sub(r1, r2, res_reg, current_time_step) ==
  write_value(res_reg, F64Sub(Unwrap(read_value(r1, Some(current_time_step))),
                              Unwrap(read_value(r2, Some(current_time_step)))))
mult(r1, r2, res_reg, current_time_step) ==
  write_value(res_reg, F64Mul(Unwrap(read_value(r1, Some(current_time_step))),
                              Unwrap(read_value(r2, Some(current_time_step)))))
div(r1, r2, res_reg, current_time_step) ==
  write_value(res_reg, F64Div(Unwrap(read_value(r1, Some(current_time_step))),
                              Unwrap(read_value(r2, Some(current_time_step)))))
\* the destination register after self.copy_to(dest_reg, step)
copy_to(self, dest_reg, current_time_step) ==
  write_value(dest_reg, Unwrap(read_value(self, Some(current_time_step))))

\* ------------------------------------------------------------------ Neuron
Neuron_new(v_th, v_rest, v_reset, tau) ==
  [v_th |-> Register_new(v_th), v_rest |-> Register_new(v_rest),
   v_reset |-> Register_new(v_reset), tau |-> Register_new(tau),
   v_mem |-> Register_new(v_rest), last_received_pulse_step |-> 0,
   weights |-> <<>>, internal_weights |-> <<>>,
   add_reg |-> Register_new(F64(0)), mul_reg |-> Register_new(F64(0)),
   cmp_reg |-> Register_new(F64(0)), div_reg |-> Register_new(F64(0))]

\* Vec<f64> -> Vec<Register>
set_weights(self, weights) ==
  [self EXCEPT !.weights = [i \in 1..Len(weights) |-> Register_new(weights[i])]]
set_internal_weights(self, internal_weights) ==
  [self EXCEPT !.internal_weights =
     [i \in 1..Len(internal_weights) |-> Register_new(internal_weights[i])]]

\* the loop of get_pulses_contribution / get_inhibitive_contribution over the
\* sources from position i on; a source index s of the code is s + 1 here
RECURSIVE SumWeights(_, _, _, _, _)
SumWeights(add_reg, weights, pulse_sources, i, time_step) ==
  IF i > Len(pulse_sources) THEN add_reg
  ELSE SumWeights(add(add_reg, weights[pulse_sources[i] + 1], add_reg, time_step),
                  weights, pulse_sources, i + 1, time_step)

get_pulses_contribution(self, pulse_sources, time_step) ==
  SumWeights(write_value(self.add_reg, F64(0)), self.weights, pulse_sources, 1, time_step)

get_inhibitive_contribution(self, pulse_sources, time_step) ==
  SumWeights(write_value(self.add_reg, F64(0)), self.internal_weights, pulse_sources, 1,
             time_step)

\* Register::new(0.0), the local registers of update_membrane_potential
ZeroReg == Register_new(F64(0))

\* The LeakyIntegrateAndFire arm of update_membrane_potential, in the order of
\* the code; each operator receives the registers written so far.
\* last: add(decay_part, pulses_contrib_reg, &mut self.add_reg), copy to v_mem
LeakyStore(self, time_step, div1, mul2, add3) ==
  [self EXCEPT !.add_reg = add3, !.mul_reg = mul2, !.div_reg = div1,
               !.v_mem = copy_to(add3, self.v_mem, time_step)]
LeakySum(self, time_step, pulses_contrib_reg, add2, div1, mul2) ==
  LeakyStore(self, time_step, div1, mul2,
             add(copy_to(mul2, ZeroReg, time_step), pulses_contrib_reg, add2, time_step))
\* exp_res = exp(exp_arg); mult(exp_res, vm_vr, &mut self.mul_reg)
LeakyDecay(self, time_step, pulses_contrib_reg, add2, mul1, div1) ==
  LeakySum(self, time_step, pulses_contrib_reg, add2, div1,
           mult(Register_new(F64Exp(Unwrap(read_value(copy_to(div1, ZeroReg, time_step),
                                                      Some(time_step))))),
                copy_to(add2, ZeroReg, time_step), mul1, time_step))
\* div(self.mul_reg, self.tau, &mut self.div_reg)
LeakyDivide(self, time_step, pulses_contrib_reg, add2, mul1) ==
  LeakyDecay(self, time_step, pulses_contrib_reg, add2, mul1,
             div(mul1, self.tau, self.div_reg, time_step))
\* sub(self.v_mem, self.v_rest, &mut self.add_reg); diff_steps;
\* mult(diff_steps, Register::new(time_step_duration_ms), &mut self.mul_reg)
Leaky(self, time_step, time_step_duration_ms, add1) ==
  LeakyDivide(self, time_step, copy_to(add1, ZeroReg, time_step),
              sub(self.v_mem, self.v_rest, add1, time_step),
              mult(Register_new(F64Sub(F64(self.last_received_pulse_step), F64(time_step))),
                   Register_new(time_step_duration_ms), self.mul_reg, time_step))

\* a match whose arms are both the leaky one
UpdateModel_Leaky(self, time_step, time_step_duration_ms, neuron_model, add1) ==
  Leaky(self, time_step, time_step_duration_ms, add1)
\* the match on neuron_model, add1 being self.add_reg after the first add
UpdateModel(self, time_step, time_step_duration_ms, neuron_model, add1) ==
  IF neuron_model = "LeakyIntegrateAndFire"
  THEN Leaky(self, time_step, time_step_duration_ms, add1)
  ELSE [self EXCEPT !.add_reg = add1,
                    !.v_mem = copy_to(copy_to(add1, ZeroReg, time_step), self.v_mem,
                                      time_step)]

\* the neuron after update_membrane_potential
update_membrane_potential(self, pulse_sources, time_step, time_step_duration_ms, neuron_model, pulse_contribution_mode) ==
  UpdateModel(self, time_step, time_step_duration_ms, neuron_model,
              add(self.v_mem,
                  IF pulse_contribution_mode = "Excitatory"
                  THEN get_pulses_contribution(self, pulse_sources, time_step)
                  ELSE get_inhibitive_contribution(self, pulse_sources, time_step),
                  self.add_reg, time_step))

\* a neuron that on firing stores the reset potential in its threshold
FeedFire_ResetThreshold(self, time_step) ==
  IF F64GeZero(Unwrap(read_value(self.cmp_reg, Some(time_step))))
  THEN [neuron |-> [self EXCEPT !.v_th = copy_to(self.v_reset, self.v_th, time_step)],
        fired |-> TRUE]
  ELSE [neuron |-> self, fired |-> FALSE]
\* the end of feed_pulses, self.cmp_reg being written: fire and reset, or not
FeedFire(self, time_step) ==
  IF F64GeZero(Unwrap(read_value(self.cmp_reg, Some(time_step))))
  THEN [neuron |-> [self EXCEPT !.v_mem = copy_to(self.v_reset, self.v_mem, time_step)],
        fired |-> TRUE]
  ELSE [neuron |-> self, fired |-> FALSE]
\* Register::cmp(self.v_mem, self.v_th, &mut self.cmp_reg, time_step)
FeedCompare(self, time_step) ==
  FeedFire([self EXCEPT !.last_received_pulse_step = time_step,
                        !.cmp_reg = cmp(self.v_mem, self.v_th, self.cmp_reg, time_step)],
           time_step)
\* feed_pulses: the neuron after the call and the value returned
feed_pulses(self, pulse_sources, time_step, time_step_duration_ms, neuron_model) ==
  FeedCompare(update_membrane_potential(self, pulse_sources, time_step,
                                        time_step_duration_ms, neuron_model, "Excitatory"),
              time_step)

\* an inhibition that leaves last_received_pulse_step as it was
inhibite_after_pulses_emission_Stale(self, pulse_sources, time_step, time_step_duration_ms, neuron_model) ==
  update_membrane_potential(self, pulse_sources, time_step, time_step_duration_ms,
                            neuron_model, "Inhibitive")
inhibite_after_pulses_emission(self, pulse_sources, time_step, time_step_duration_ms, neuron_model) ==
  [update_membrane_potential(self, pulse_sources, time_step, time_step_duration_ms,
                             neuron_model, "Inhibitive")
     EXCEPT !.last_received_pulse_step = time_step]

\* ------------------------------------------------- the unwraps of a call
\* read_value(...).unwrap() panics when the read gives None.  Whether a read
\* gives a value depends on the fault of the register and on the step supplied,
\* not on the value stored, and no call changes a fault: the operators below
\* tell, from the neuron before the call, whether every unwrap of the call
\* finds a value.  A local register is a copy of a register of the neuron
\* (let mut add_reg = self.add_reg) or Working (Register::new).
\* helpers that read their operands without a step
OperandsRead_NoStep(r1, r2, current_time_step) ==
  read_value(r1, None).some /\ read_value(r2, None).some
\* Register::add, sub, mult, div, cmp: r1.read_value(Some(current_time_step))
\* and r2.read_value(Some(current_time_step)), both unwrapped
OperandsRead(r1, r2, current_time_step) ==
  /\ read_value(r1, Some(current_time_step)).some
  /\ read_value(r2, Some(current_time_step)).some
\* update_membrane_potential on the registers (weights or internal_weights) of
\* the contribution: the adds of the contribution, add(v_mem, contribution),
\* add_reg.copy_to, then the arm of the model
UpdateUnwraps(self, registers, pulse_sources, time_step, neuron_model) ==
  /\ \A k \in DOMAIN pulse_sources :
       OperandsRead(self.add_reg, registers[pulse_sources[k] + 1], time_step)
  /\ OperandsRead(self.v_mem, self.add_reg, time_step)
  /\ read_value(self.add_reg, Some(time_step)).some
  /\ IF neuron_model = "LeakyIntegrateAndFire"
     THEN /\ OperandsRead(self.v_mem, self.v_rest, time_step)
          /\ read_value(self.add_reg, Some(time_step)).some
          /\ OperandsRead(ZeroReg, ZeroReg, time_step)
          /\ OperandsRead(self.mul_reg, self.tau, time_step)
          /\ read_value(self.div_reg, Some(time_step)).some
          /\ read_value(ZeroReg, Some(time_step)).some
          /\ OperandsRead(ZeroReg, ZeroReg, time_step)
          /\ read_value(self.mul_reg, Some(time_step)).some
          /\ OperandsRead(ZeroReg, ZeroReg, time_step)
          /\ read_value(self.add_reg, Some(time_step)).some
     ELSE read_value(ZeroReg, Some(time_step)).some
\* feed_pulses: the update, Register::cmp(v_mem, v_th), the read of cmp_reg
\* and, when the neuron fires, v_reset.copy_to
FeedUnwraps(self, pulse_sources, time_step, time_step_duration_ms, neuron_model) ==
  /\ UpdateUnwraps(self, self.weights, pulse_sources, time_step, neuron_model)
  /\ OperandsRead(self.v_mem, self.v_th, time_step)
  /\ read_value(self.cmp_reg, Some(time_step)).some
  /\ \/ read_value(self.v_reset, Some(time_step)).some
     \/ ~feed_pulses(self, pulse_sources, time_step, time_step_duration_ms,
                     neuron_model).fired

\* ----------------------------------------------------------------- Network
\* enum Message
Pulse(source_index) == [type |-> "Pulse", source |-> source_index]
GoAhead == [type |-> "GoAhead", source |-> 0]

Network_new(time_step_duration_us, nr_inputs, nr_outputs, model) ==
  [nr_inputs |-> nr_inputs, nr_outputs |-> nr_outputs,
   time_step_duration_us |-> time_step_duration_us, layers |-> <<>>, model |-> model]
add_layer(self, layer) == [self EXCEPT !.layers = Append(self.layers, layer)]

\* a matrix is a sequence of rows; row i, column j of the code is [i + 1][j + 1]
create_output_matrix(self, time_steps) ==
  [i \in 1..Len(self.layers[Len(self.layers)]) |-> [j \in 1..time_steps |-> FALSE]]

\* a check that only refuses rows shorter than the first
input_matrix_is_valid_Shorter(input) ==
  \A i \in 1..Len(input) : Len(input[i]) >= Len(input[1])
input_matrix_is_valid(input) == \A i \in 1..Len(input) : Len(input[i]) = Len(input[1])

\* self.time_step_duration_us / 1000.0
time_step_duration_ms(self) == F64Div(self.time_step_duration_us, F64(1000))

\* an injection loop that sends no GoAhead after a time step without a pulse
RECURSIVE InjectPulses_NoBarrier(_, _, _)
InjectPulses_NoBarrier(input, time_step, input_node) ==
  IF input_node = Len(input)
  THEN (IF \E i \in DOMAIN input : input[i][time_step + 1] THEN <<GoAhead>> ELSE <<>>)
  ELSE (IF input[input_node + 1][time_step + 1] THEN <<Pulse(input_node)>> ELSE <<>>)
       \o InjectPulses_NoBarrier(input, time_step, input_node + 1)
\* what the injection loop sends for one time step, from input_node on
RECURSIVE InjectPulses(_, _, _)
InjectPulses(input, time_step, input_node) ==
  IF input_node = Len(input) THEN <<GoAhead>>
  ELSE (IF input[input_node + 1][time_step + 1] THEN <<Pulse(input_node)>> ELSE <<>>)
       \o InjectPulses(input, time_step, input_node + 1)

\* a worker that inhibits no neuron
InhibitLayer_None(layer_neurons, emitted_pulse_sources, time_step, dt_ms, model) ==
  layer_neurons
\* the inhibition loop of a worker over its neurons
InhibitLayer(layer_neurons, emitted_pulse_sources, time_step, dt_ms, model) ==
  [i \in 1..Len(layer_neurons) |->
     inhibite_after_pulses_emission(layer_neurons[i], emitted_pulse_sources, time_step,
                                    dt_ms, model)]

\* a collector that writes a Pulse into the column after the current one
WriteResult_NextColumn(c, message) ==
  IF c.panicked THEN c
  ELSE IF message.type = "GoAhead" THEN [c EXCEPT !.time_step = c.time_step + 1]
  ELSE IF message.source + 1 \in DOMAIN c.output
          /\ c.time_step + 2 \in DOMAIN c.output[message.source + 1]
       THEN [c EXCEPT !.output[message.source + 1][c.time_step + 2] = TRUE]
       ELSE [c EXCEPT !.panicked = TRUE]
\* one step of write_results on a received message
\* c = [output, time_step, panicked]
WriteResult(c, message) ==
  IF c.panicked THEN c
  ELSE IF message.type = "GoAhead" THEN [c EXCEPT !.time_step = c.time_step + 1]
  ELSE IF message.source + 1 \in DOMAIN c.output
          /\ c.time_step + 1 \in DOMAIN c.output[message.source + 1]
       THEN [c EXCEPT !.output[message.source + 1][c.time_step + 1] = TRUE]
       ELSE [c EXCEPT !.panicked = TRUE]

\* -------------------------------------------------- the worker of one layer
\* The thread of a layer: pc is its place in the closure of Network::run
\* ("recv": in the while-let loop on the channel, "feed": in the loop over the
\* neurons at neuron i, "goahead": before the send of GoAhead, "return": the
\* loop over the time steps has ended, "exit": the closure has returned, its
\* sender is dropped and the thread can be joined, "panicked": an unwrap of
\* the closure found no value, the thread is dead and its sender dropped).
\* fed and inhibited are the record of what the thread did: the <<source,
\* time_step>> it fed to its neurons, and the time_step and sources of every
\* inhibition
IdleWorker ==
  [pc |-> "unspawned", time_step |-> 0, pulse_sources |-> <<>>,
   emitted_pulse_sources |-> <<>>, layer_neurons |-> <<>>, i |-> 0,
   fed |-> {}, inhibited |-> <<>>]

\* the end of one pass of `for time_step in 0..snn_time_steps_number`
NextIteration(w, time_steps) ==
  IF w.time_step + 1 >= time_steps
  THEN [w EXCEPT !.pc = "return", !.time_step = w.time_step + 1, !.pulse_sources = <<>>]
  ELSE [w EXCEPT !.pc = "recv", !.time_step = w.time_step + 1, !.pulse_sources = <<>>]

\* a worker that feeds its neurons whether or not a pulse was received
AfterInhibition_AlwaysFeed(w, time_steps) ==
  [w EXCEPT !.pc = "feed", !.i = 0,
            !.fed = @ \cup {<<w.pulse_sources[k], w.time_step>> :
                              k \in DOMAIN w.pulse_sources}]
\* after the inhibition: the feed loop or, with no pulse received, the next
\* time step (no GoAhead is sent then)
AfterInhibition(w, time_steps) ==
  IF Len(w.pulse_sources) > 0
  THEN [w EXCEPT !.pc = "feed", !.i = 0,
                 !.fed = @ \cup {<<w.pulse_sources[k], w.time_step>> :
                                   k \in DOMAIN w.pulse_sources}]
  ELSE NextIteration(w, time_steps)
\* a worker that inhibits its layer at time step 0 as well
AfterReceive_Always(w, time_steps, dt_ms, model) ==
  AfterInhibition([w EXCEPT !.layer_neurons =
                      InhibitLayer(w.layer_neurons, w.emitted_pulse_sources,
                                   w.time_step, dt_ms, model),
                            !.emitted_pulse_sources = <<>>,
                            !.inhibited =
                               Append(@, [time_step |-> w.time_step,
                                          sources |-> w.emitted_pulse_sources])],
                  time_steps)
\* the worker once its receive loop has ended: inhibition of the layer by the
\* pulses it emitted at the step before
AfterReceive(w, time_steps, dt_ms, model) ==
  AfterInhibition(IF w.time_step > 0
                  THEN [w EXCEPT !.layer_neurons =
                          InhibitLayer(w.layer_neurons, w.emitted_pulse_sources,
                                       w.time_step, dt_ms, model),
                                 !.emitted_pulse_sources = <<>>,
                                 !.inhibited =
                                    Append(@, [time_step |-> w.time_step,
                                               sources |-> w.emitted_pulse_sources])]
                  ELSE w,
                  time_steps)

\* the worker after feed_pulses on neuron i returned r
AfterFeed(w, pos, r) ==
  [ok |-> TRUE, pos |-> pos,
   msgs |-> IF r.fired THEN <<Pulse(w.i)>> ELSE <<>>,
   w |-> [w EXCEPT !.layer_neurons[w.i + 1] = r.neuron,
                   !.emitted_pulse_sources = IF r.fired THEN Append(@, w.i) ELSE @,
                   !.i = w.i + 1,
                   !.pc = IF w.i + 1 < Len(w.layer_neurons) THEN "feed" ELSE "goahead"]]

\* One step of a worker whose channel holds inq, of which it has received the
\* first pos messages; closed says that the sender is dropped.  ok is FALSE
\* when the worker is blocked in recv; msgs is what the step sends.
WorkerStep(w, inq, pos, closed, time_steps, dt_ms, model) ==
  CASE w.pc = "recv" ->
         IF pos < Len(inq) /\ inq[pos + 1].type = "Pulse"
         THEN [ok |-> TRUE, pos |-> pos + 1, msgs |-> <<>>,
               w |-> [w EXCEPT !.pulse_sources = Append(@, inq[pos + 1].source)]]
         ELSE IF pos < Len(inq) \/ closed
         THEN [ok |-> TRUE, pos |-> IF pos < Len(inq) THEN pos + 1 ELSE pos,
               msgs |-> <<>>,
               w |-> IF w.time_step > 0
                        /\ \E i \in DOMAIN w.layer_neurons :
                             ~UpdateUnwraps(w.layer_neurons[i],
                                            w.layer_neurons[i].internal_weights,
                                            w.emitted_pulse_sources, w.time_step, model)
                     THEN [w EXCEPT !.pc = "panicked"]
                     ELSE AfterReceive(w, time_steps, dt_ms, model)]
         ELSE [ok |-> FALSE, pos |-> pos, msgs |-> <<>>, w |-> w]
    [] w.pc = "feed" ->
         IF FeedUnwraps(w.layer_neurons[w.i + 1], w.pulse_sources, w.time_step, dt_ms,
                        model)
         THEN AfterFeed(w, pos, feed_pulses(w.layer_neurons[w.i + 1], w.pulse_sources,
                                            w.time_step, dt_ms, model))
         ELSE [ok |-> TRUE, pos |-> pos, msgs |-> <<>>,
               w |-> [w EXCEPT !.pc = "panicked"]]
    [] w.pc = "goahead" ->
         [ok |-> TRUE, pos |-> pos, msgs |-> <<GoAhead>>,
          w |-> NextIteration(w, time_steps)]
    [] w.pc = "return" ->
         [ok |-> TRUE, pos |-> pos, msgs |-> <<>>, w |-> [w EXCEPT !.pc = "exit"]]
    [] OTHER -> [ok |-> FALSE, pos |-> pos, msgs |-> <<>>, w |-> w]

\* ------------------------------------------- Network::run, one layer at a time
\* what a worker sends over its whole life when its channel carries inq and is
\* closed (or not) once inq is drained
RECURSIVE WorkerRun(_, _, _, _, _, _, _, _)
\* the rest of the life of a worker whose last step gave r
WorkerGo(r, inq, out, closed, time_steps, dt_ms, model) ==
  IF ~r.ok THEN out
  ELSE WorkerRun(r.w, inq, r.pos, out \o r.msgs, closed, time_steps, dt_ms, model)
WorkerRun(w, inq, pos, out, closed, time_steps, dt_ms, model) ==
  WorkerGo(WorkerStep(w, inq, pos, closed, time_steps, dt_ms, model), inq, out, closed,
           time_steps, dt_ms, model)

RECURSIVE Injected(_, _, _)
Injected(input, time_step, time_steps) ==
  IF time_step >= time_steps THEN <<>>
  ELSE InjectPulses(input, time_step, 0) \o Injected(input, time_step + 1, time_steps)

RECURSIVE LayersRun(_, _, _, _, _, _)
LayersRun(layers, layer_nr, inq, time_steps, dt_ms, model) ==
  IF layer_nr > Len(layers) THEN inq
  ELSE LayersRun(layers, layer_nr + 1,
                 WorkerRun([IdleWorker EXCEPT !.pc = "recv",
                                              !.layer_neurons = layers[layer_nr]],
                           inq, 0, <<>>, layer_nr > 1, time_steps, dt_ms, model),
                 time_steps, dt_ms, model)

RECURSIVE write_results(_, _, _)
write_results(rx, pos, c) ==
  IF pos >= Len(rx) THEN c ELSE write_results(rx, pos + 1, WriteResult(c, rx[pos + 1]))

\* the collector after Network::run(self, input)
RunCollector(self, input) ==
  LET time_steps == Len(input[1])
  IN  write_results(LayersRun(self.layers, 1, Injected(input, 0, time_steps), time_steps,
                              time_step_duration_ms(self), self.model),
                    0,
                    [output |-> create_output_matrix(self, time_steps), time_step |-> 0,
                     panicked |-> FALSE])
\* the matrix returned by Network::run(self, input)
run(self, input) == RunCollector(self, input).output

\* a match whose arms all damage the threshold
DamageNeuron_Threshold(neuron, faulty_element, damage, coin, weight_index) ==
  [neuron EXCEPT !.v_th = apply_damage(@, damage)]
\* the neuron's register of a kind of FaultyElement (for Weights: entry
\* weight_index of the external weights if coin, of the internal ones if not)
DamageNeuron(neuron, faulty_element, damage, coin, weight_index) ==
  CASE faulty_element = "Weights" ->
         IF coin
         THEN [neuron EXCEPT !.weights[weight_index + 1] = apply_damage(@, damage)]
         ELSE [neuron EXCEPT !.internal_weights[weight_index + 1] = apply_damage(@, damage)]
    [] faulty_element = "Thresholds" -> [neuron EXCEPT !.v_th = apply_damage(@, damage)]
    [] faulty_element = "MembranePotentials" ->
         [neuron EXCEPT !.v_mem = apply_damage(@, damage)]
    [] faulty_element = "ResetPotentials" ->
         [neuron EXCEPT !.v_reset = apply_damage(@, damage)]
    [] faulty_element = "PotentialsAtRest" ->
         [neuron EXCEPT !.v_rest = apply_damage(@, damage)]
    [] faulty_element = "Comparator" -> [neuron EXCEPT !.cmp_reg = apply_damage(@, damage)]
    [] faulty_element = "Adder" -> [neuron EXCEPT !.add_reg = apply_damage(@, damage)]
    [] faulty_element = "Multiplier" -> [neuron EXCEPT !.mul_reg = apply_damage(@, damage)]
    [] faulty_element = "Divider" -> [neuron EXCEPT !.div_reg = apply_damage(@, damage)]

\* enum DamageModel -> Damage
MakeDamage(damage_type, bit_position, time_step) ==
  CASE damage_type = "StuckAt0" -> StuckAt0(bit_position)
    [] damage_type = "StuckAt1" -> StuckAt1(bit_position)
    [] damage_type = "TransientBitFlip" -> TransientBitFlip(bit_position, time_step)

\* apply_damage_to_snn with the values its random draws gave: the element kind,
\* the layer, the neuron, the bit, the time step, the coin and the weight.
\* The result is the damaged network and the DamageDetail returned.
apply_damage_to_snn(self, damage_type, faulty_element, index_of_layer_to_damage, index_of_neuron_to_damage, bit_position, time_step, coin, weight_index) ==
  [snn |-> [self EXCEPT
              !.layers[index_of_layer_to_damage + 1][index_of_neuron_to_damage + 1] =
                 DamageNeuron(@, faulty_element,
                              MakeDamage(damage_type, bit_position, time_step),
                              coin, weight_index)],
   detail |-> [at_iteration |-> 0, damage_type |-> faulty_element,
               at_layer |-> index_of_layer_to_damage,
               at_neuron |-> index_of_neuron_to_damage, at_bit |-> bit_position]]

\* SimulationResultCell::new
SimulationResultCell_new(row_id, col_id) ==
  [output_index |-> row_id, time_step |-> col_id, actual_value |-> FALSE,
   diff_count |-> 0, damage_details |-> <<>>]

\* the result matrix simulate creates: self.nr_outputs rows, one cell per step
NewResultMatrix(self, input) ==
  [i \in 1..self.nr_outputs |->
     [j \in 1..Len(input[1]) |-> SimulationResultCell_new(i - 1, j - 1)]]

\* a trial that counts cells where the damaged output is a pulse
compare_outputs_Pulses(output_without_damages, output_with_damage, simulation_result_matrix, iteration_number, damage_detail) ==
  [i \in DOMAIN simulation_result_matrix |->
     [j \in DOMAIN simulation_result_matrix[i] |->
        IF output_with_damage[i][j]
        THEN [simulation_result_matrix[i][j] EXCEPT
                !.diff_count = @ + 1,
                !.damage_details =
                   Append(@, [damage_detail EXCEPT !.at_iteration = iteration_number])]
        ELSE simulation_result_matrix[i][j]]]
\* a trial whose detail keeps the dummy at_iteration of apply_damage_to_snn
compare_outputs_NoIteration(output_without_damages, output_with_damage, simulation_result_matrix, iteration_number, damage_detail) ==
  [i \in DOMAIN simulation_result_matrix |->
     [j \in DOMAIN simulation_result_matrix[i] |->
        IF output_with_damage[i][j] # output_without_damages[i][j]
        THEN [simulation_result_matrix[i][j] EXCEPT
                !.diff_count = @ + 1, !.damage_details = Append(@, damage_detail)]
        ELSE simulation_result_matrix[i][j]]]
\* the cells of matrix m, as <<row, column>> counted from 1
Cells(m) == UNION { {<<i, j>> : j \in DOMAIN m[i]} : i \in DOMAIN m }
\* the result matrix after compare_outputs: its loops run over the cells of
\* output_with_damage
compare_outputs(output_without_damages, output_with_damage, simulation_result_matrix, iteration_number, damage_detail) ==
  [i \in DOMAIN simulation_result_matrix |->
     [j \in DOMAIN simulation_result_matrix[i] |->
        IF /\ <<i, j>> \in Cells(output_with_damage)
           /\ output_with_damage[i][j] # output_without_damages[i][j]
        THEN [simulation_result_matrix[i][j] EXCEPT
                !.diff_count = @ + 1,
                !.damage_details =
                   Append(@, [damage_detail EXCEPT !.at_iteration = iteration_number])]
        ELSE simulation_result_matrix[i][j]]]

\* a fill that copies the golden value everywhere
ActualValues_Golden(simulation_result_matrix, output_without_damages) ==
  [i \in DOMAIN simulation_result_matrix |->
     [j \in DOMAIN simulation_result_matrix[i] |->
        [simulation_result_matrix[i][j] EXCEPT
           !.actual_value = output_without_damages[i][j]]]]
\* the last loop of simulate, which runs over the cells of
\* output_without_damages: actual_value of every cell
ActualValues(simulation_result_matrix, output_without_damages) ==
  [i \in DOMAIN simulation_result_matrix |->
     [j \in DOMAIN simulation_result_matrix[i] |->
        IF <<i, j>> \notin Cells(output_without_damages) THEN simulation_result_matrix[i][j]
        ELSE IF simulation_result_matrix[i][j].diff_count # 0
        THEN [simulation_result_matrix[i][j] EXCEPT
                !.actual_value = ~output_without_damages[i][j]]
        ELSE [simulation_result_matrix[i][j] EXCEPT
                !.actual_value = output_without_damages[i][j]]]]

\* #[derive(Clone)] on Network, Neuron and Register: a copy of the value
clone(self) == self

\* ------------------------------------------------------ the networks checked
\* a neuron with the default electrical parameters of Neuron::default
DefaultNeuron(weights, internal_weights) ==
  set_internal_weights(
    set_weights(Neuron_new(F64(-55), F64(-70), F64(-70), F64(10)), weights),
    internal_weights)

\* one input, one layer of one neuron with input weight w
SingleNeuronNet(w, model) ==
  add_layer(Network_new(F64(1000), 1, 1, model), <<DefaultNeuron(<<F64(w)>>, <<F64(0)>>)>>)

\* two inputs, a layer of two neurons with lateral inhibition, a layer of one
TwoLayerNet(model) ==
  add_layer(
    add_layer(Network_new(F64(1000), 2, 1, model),
              <<DefaultNeuron(<<F64(20), F64(10)>>, <<F64(0), F64(-10)>>),
                DefaultNeuron(<<F64(10), F64(10)>>, <<F64(-10), F64(0)>>)>>),
    <<DefaultNeuron(<<F64(10), F64(10)>>, <<F64(0)>>)>>)

\* two inputs, one layer of two neurons that each fire on any input pulse and
\* inhibit each other with weight -100
LateralNet(model) ==
  add_layer(Network_new(F64(1000), 2, 2, model),
            <<DefaultNeuron(<<F64(20), F64(20)>>, <<F64(0), F64(-100)>>),
              DefaultNeuron(<<F64(20), F64(20)>>, <<F64(-100), F64(0)>>)>>)

NeuronModels == {"LeakyIntegrateAndFire", "IntegrateAndFire"}
\* the input weights of the single-neuron scenarios: below, at and above
\* v_th - v_rest = 15
ScenarioWeights == {10, 15, 20}
BaseNetworks ==
  {SingleNeuronNet(20, m) : m \in NeuronModels} \cup {TwoLayerNet(m) : m \in NeuronModels}

\* the faults a checked run may carry: none, or one put by apply_damage_to_snn
RunFaults ==
  { [damage_type |-> "StuckAt0", faulty_element |-> "Thresholds", bit |-> SignBit, step |-> 0],
    [damage_type |-> "StuckAt1", faulty_element |-> "Weights", bit |-> SignBit, step |-> 0],
    [damage_type |-> "TransientBitFlip", faulty_element |-> "Comparator",
     bit |-> SignBit, step |-> 1],
    [damage_type |-> "StuckAt1", faulty_element |-> "Thresholds",
     bit |-> SignBit - 2, step |-> 0] }
RunNetworks ==
  BaseNetworks \cup
  {SingleNeuronNet(w, m) : w \in ScenarioWeights, m \in NeuronModels} \cup
  {LateralNet(m) : m \in NeuronModels} \cup
  { apply_damage_to_snn(n, f.damage_type, f.faulty_element, 0, 0, f.bit, f.step,
                        TRUE, 0).snn : n \in BaseNetworks, f \in RunFaults }

\* the rectangular boolean matrices of rows rows and cols columns
Matrices(rows, cols) == [1..rows -> [1..cols -> BOOLEAN]]
Inputs(nr_inputs) == UNION { Matrices(nr_inputs, t) : t \in 1..MaxT }

\* ------------------------------------------------------------------- state
VARIABLES
  network,    \* Network::run: self (its layers move to the workers)
  input,      \* the input matrix
  sent,       \* sent[n]: the messages sent so far on the channel read by layer n
  taken,      \* taken[n]: how many of them have been received
  main,       \* the thread that called run: its place and locals
  worker,     \* worker[n]: the thread of layer n
  collector,  \* write_results: output, time_step
  fired,      \* fired[n]: the <<neuron, time step>> at which layer n sent a Pulse
  sim,        \* Network::simulate: its place and locals
  reg,        \* a Register under test
  ret,        \* what the last read of reg returned
  regcall,    \* the last call on reg: its name and arguments
  unit,       \* a Neuron under test and the last call on it
  load,       \* json::load_from_file: the description read and what it returned
  cli         \* main: the elements of the command line still to parse, and those parsed

vars ==
  <<network, input, sent, taken, main, worker, collector, fired, sim, reg, ret, regcall, unit,
    load, cli>>

SimIdle == [pc |-> "idle"]
RegIdle == Register_new(F64(0))
CallIdle == [op |-> "idle"]
UnitIdle == [op |-> "idle"]
LoadIdle == [pc |-> "idle"]
CliIdle == [pc |-> "idle"]
\* nothing but the state of the operation checked is in use
OthersIdle == regcall = CallIdle /\ unit = UnitIdle /\ load = LoadIdle /\ cli = CliIdle

\* a receiver that does not wait: an empty channel reads as a closed one
Closed_TryRecv(n) == n > 0
\* a sender that is never dropped
Closed_Never(n) == FALSE
\* the sender of channel n is dropped: for n > 0 it is owned by worker n - 1;
\* input_injection_sender lives until run returns
Closed(n) == n > 0 /\ worker[n - 1].pc \in {"exit", "panicked"}

\* the state of run(self, input) before the injection loop
RunStart(self, inp) ==
  /\ network = self
  /\ input = inp
  /\ sent = [n \in 0..Len(self.layers) |-> <<>>]
  /\ taken = [n \in 0..Len(self.layers) |-> 0]
  /\ main = [pc |-> "inject", self |-> self, time_step |-> 0, layer_nr |-> 0,
             join_nr |-> 0,
             snn_time_steps_number |-> Len(inp[1]),
             time_step_duration_ms |-> time_step_duration_ms(self),
             number_of_layers |-> Len(self.layers), model |-> self.model]
  /\ worker = [n \in 0..(Len(self.layers) - 1) |-> IdleWorker]
  /\ collector = [output |-> create_output_matrix(self, Len(inp[1])), time_step |-> 0,
                  panicked |-> FALSE]
  /\ fired = [n \in 0..(Len(self.layers) - 1) |-> {}]

Init ==
  /\ \E self \in RunNetworks : \E inp \in Inputs(self.nr_inputs) : RunStart(self, inp)
  /\ sim = SimIdle
  /\ reg = RegIdle
  /\ ret = None
  /\ OthersIdle

\* input[input_node][time_step] is within bounds for every input_node
InBounds(inp, time_step) == \A input_node \in DOMAIN inp : time_step < Len(inp[input_node])
\* one pass of the injection loop: the pulses of a time step, then GoAhead
InjectStep ==
  /\ main.pc = "inject"
  /\ main.time_step < main.snn_time_steps_number
  /\ InBounds(input, main.time_step)
  /\ sent' = [sent EXCEPT ![0] = @ \o InjectPulses(input, main.time_step, 0)]
  /\ main' = [main EXCEPT !.time_step = @ + 1]
  /\ UNCHANGED <<cli, regcall, unit, load, network, input, taken, worker, collector, fired, sim, reg, ret>>

InjectEnd ==
  /\ main.pc = "inject"
  /\ main.time_step >= main.snn_time_steps_number
  /\ main' = [main EXCEPT !.pc = "spawn"]
  /\ UNCHANGED <<cli, regcall, unit, load, network, input, sent, taken, worker, collector, fired, sim, reg, ret>>

\* one pass of the spawn loop: layer layer_nr leaves self.layers for its thread
Spawn ==
  /\ main.pc = "spawn"
  /\ main.layer_nr < main.number_of_layers
  /\ worker' = [worker EXCEPT ![main.layer_nr] =
                  [IdleWorker EXCEPT !.pc = "recv", !.layer_neurons = Head(network.layers)]]
  /\ network' = [network EXCEPT !.layers = Tail(@)]
  /\ main' = IF main.layer_nr = main.number_of_layers - 1
             THEN [main EXCEPT !.pc = "join"]
             ELSE [main EXCEPT !.layer_nr = @ + 1]
  /\ UNCHANGED <<cli, regcall, unit, load, input, sent, taken, collector, fired, sim, reg, ret>>

\* the pulses among msgs, each with the time step its sender was processing
PulsesAt(msgs, time_step) ==
  {<<msgs[k].source, time_step>> : k \in {k \in DOMAIN msgs : msgs[k].type = "Pulse"}}
\* the step r of the thread of layer n takes effect
WorkerDoes(n, r) ==
  /\ r.ok
  /\ worker' = [worker EXCEPT ![n] = r.w]
  /\ taken' = [taken EXCEPT ![n] = r.pos]
  /\ sent' = [sent EXCEPT ![n + 1] = @ \o r.msgs]
  /\ fired' = [fired EXCEPT ![n] = @ \cup PulsesAt(r.msgs, worker[n].time_step)]
  /\ UNCHANGED <<cli, regcall, unit, load, network, input, main, collector, sim, reg, ret>>
\* a step of the thread of layer n
Worker(n) ==
  WorkerDoes(n, WorkerStep(worker[n], sent[n], taken[n], Closed(n),
                           main.snn_time_steps_number, main.time_step_duration_ms,
                           main.model))

WorkerRecv == \E n \in DOMAIN worker : worker[n].pc = "recv" /\ Worker(n)
WorkerFeed == \E n \in DOMAIN worker : worker[n].pc = "feed" /\ Worker(n)
WorkerGoAhead == \E n \in DOMAIN worker : worker[n].pc = "goahead" /\ Worker(n)
WorkerReturn == \E n \in DOMAIN worker : worker[n].pc = "return" /\ Worker(n)

\* join of the next thread handle
Join ==
  /\ main.pc = "join"
  /\ main.join_nr < main.number_of_layers
  /\ worker[main.join_nr].pc = "exit"
  /\ main' = IF main.join_nr = main.number_of_layers - 1
             THEN [main EXCEPT !.pc = "collect", !.join_nr = @ + 1]
             ELSE [main EXCEPT !.join_nr = @ + 1]
  /\ UNCHANGED <<cli, regcall, unit, load, network, input, sent, taken, worker, collector, fired, sim, reg, ret>>

\* write_results: one message of the last channel
CollectRecv ==
  /\ main.pc = "collect"
  /\ taken[main.number_of_layers] < Len(sent[main.number_of_layers])
  /\ collector' = WriteResult(collector,
                              sent[main.number_of_layers][taken[main.number_of_layers] + 1])
  /\ taken' = [taken EXCEPT ![main.number_of_layers] = @ + 1]
  /\ UNCHANGED <<cli, regcall, unit, load, network, input, sent, main, worker, fired, sim, reg, ret>>

\* write_results: recv fails on the drained, closed channel; run returns output
CollectEnd ==
  /\ main.pc = "collect"
  /\ taken[main.number_of_layers] >= Len(sent[main.number_of_layers])
  /\ Closed(main.number_of_layers)
  /\ main' = [main EXCEPT !.pc = "done"]
  /\ UNCHANGED <<cli, regcall, unit, load, network, input, sent, taken, worker, collector, fired, sim, reg, ret>>

Next ==
  \/ InjectStep
  \/ InjectEnd
  \/ Spawn
  \/ WorkerRecv
  \/ WorkerFeed
  \/ WorkerGoAhead
  \/ WorkerReturn
  \/ Join
  \/ CollectRecv
  \/ CollectEnd

Spec == Init /\ [][Next]_vars

\* the thread of layer n can take a step: it is running and not waiting in
\* recv on an empty channel whose sender is alive
CanWork(n) ==
  \/ worker[n].pc \in {"feed", "goahead", "return"}
  \/ worker[n].pc = "recv" /\ (taken[n] < Len(sent[n]) \/ Closed(n))
\* the thread that called run can take a step: join and recv may block
CanMain ==
  \/ main.pc \in {"inject", "spawn"}
  \/ main.pc = "join" /\ worker[main.join_nr].pc = "exit"
  \/ main.pc = "collect"
       /\ (taken[main.number_of_layers] < Len(sent[main.number_of_layers])
           \/ Closed(main.number_of_layers))
\* some thread can take a step (the enabling condition of Next)
CanStep == CanMain \/ \E n \in DOMAIN worker : CanWork(n)

\* The threads of run are scheduled by the operating system: as long as some
\* thread can take a step, one is taken.  This is WF_vars(Next), with the
\* enabling condition of Next written out.
FairSpec == Spec /\ (<>[]CanStep => []<><<Next>>_vars)

\* ------------------------------------------------------- properties of run
\* run has returned
Returned == main.pc = "done"
RECURSIVE GoAheads(_, _)
\* the number of GoAhead among the first k messages of a channel
GoAheads(msgs, k) ==
  IF k = 0 THEN 0
  ELSE GoAheads(msgs, k - 1) + (IF msgs[k].type = "GoAhead" THEN 1 ELSE 0)

\* C1: over a run of T time steps every layer sends exactly one GoAhead per
\* time step, also for a step in which it received no Pulse: once run has
\* returned every channel has carried exactly T GoAhead, so each layer has sent
\* as many as it consumed.
C1_OneBarrierPerStep ==
  Returned =>
    \A n \in DOMAIN sent : GoAheads(sent[n], Len(sent[n])) = main.snn_time_steps_number

\* C2: the matrix run returns has output[i][j] true exactly when neuron i of
\* the last layer sent a Pulse while processing time step j.
C2_OutputColumnIsStep ==
  Returned =>
    \A i \in DOMAIN collector.output : \A j \in DOMAIN collector.output[i] :
      collector.output[i][j] <=> <<i - 1, j - 1>> \in fired[main.number_of_layers - 1]

\* C3: whatever the interleaving of the threads, run returns the matrix that
\* running the layers one after the other on the same network and input gives.
C3_Deterministic ==
  Returned => ~collector.panicked /\ collector.output = run(main.self, input)
\* a run of two concurrent layers of a faulty network has returned pulses
C3_Witness ==
  /\ Returned
  /\ main.number_of_layers = 2
  /\ main.self.layers[1][1].v_th.damage.kind = "StuckAt0"
  /\ \E i \in DOMAIN collector.output : \E j \in DOMAIN collector.output[i] :
       collector.output[i][j]

\* every thread has exited, been joined, and left its channel empty
AllDrained ==
  /\ \A n \in DOMAIN worker : worker[n].pc = "exit"
  /\ main.join_nr = main.number_of_layers
  /\ \A n \in DOMAIN sent : taken[n] = Len(sent[n])
\* C4: run terminates without deadlock: until it has returned some thread can
\* take a step, in every fair execution it returns, and when it has, all workers
\* have exited and been joined and every channel is drained.
C4_Terminates == <>Returned /\ [](Returned \/ CanStep) /\ [](Returned => AllDrained)
\* run has returned although a layer got fewer GoAhead than time steps and had
\* to see its channel closed
C4_Witness ==
  /\ Returned
  /\ AllDrained
  /\ main.number_of_layers = 2
  /\ GoAheads(sent[1], Len(sent[1])) < main.snn_time_steps_number

\* --------------------------------------------- run on a ragged input matrix
\* the matrices of two rows of different lengths
RaggedInputs ==
  UNION { {<<r1, r2>> : r1 \in [1..t[1] -> BOOLEAN], r2 \in [1..t[2] -> BOOLEAN]} :
          t \in {t \in (1..MaxT) \X (1..MaxT) : t[1] # t[2]} }

InitRagged ==
  /\ \E model \in NeuronModels : \E inp \in RaggedInputs : RunStart(TwoLayerNet(model), inp)
  /\ sim = SimIdle
  /\ reg = RegIdle
  /\ ret = None
  /\ OthersIdle

\* the injection loop indexes a row that has no column time_step: the thread
\* that called run panics (index out of bounds), no layer thread being spawned
InjectPanic ==
  /\ main.pc = "inject"
  /\ main.time_step < main.snn_time_steps_number
  /\ ~InBounds(input, main.time_step)
  /\ main' = [main EXCEPT !.pc = "panicked"]
  /\ UNCHANGED <<cli, regcall, unit, load, network, input, sent, taken, worker, collector, fired,
                 sim, reg, ret>>

NextRagged ==
  \/ InjectStep
  \/ InjectPanic
  \/ InjectEnd
  \/ Spawn
  \/ WorkerRecv
  \/ WorkerFeed
  \/ WorkerGoAhead
  \/ WorkerReturn
  \/ Join
  \/ CollectRecv
  \/ CollectEnd

SpecRagged == InitRagged /\ [][NextRagged]_vars

\* C19: run called with an input whose rows differ in length is refused: no
\* layer thread is started, no output is returned and the caller does not
\* abort on an index out of range.
C19_RunRejectsRagged ==
  (\E i \in DOMAIN input : \E j \in DOMAIN input : Len(input[i]) # Len(input[j])) =>
    /\ \A n \in DOMAIN worker : worker[n].pc = "unspawned"
    /\ main.pc \notin {"done", "panicked"}

\* ------------------------------------------------------- Network::simulate
Range(seq) == {seq[k] : k \in DOMAIN seq}

\* no call of run is under way
NoRun ==
  /\ network = Network_new(F64(0), 0, 0, "IntegrateAndFire")
  /\ input = <<>>
  /\ sent = <<>>
  /\ taken = <<>>
  /\ main = [pc |-> "idle"]
  /\ worker = <<>>
  /\ collector = [output |-> <<>>, time_step |-> 0, panicked |-> FALSE]
  /\ fired = <<>>

\* the calls of simulate checked: the network, the kinds of element, the damage
\* model and the input; the last two inputs are not rectangular
SimCalls ==
  { [self |-> SingleNeuronNet(20, "LeakyIntegrateAndFire"),
     faulty_elements |-> <<"Thresholds", "MembranePotentials">>,
     damage_type |-> "StuckAt0", input |-> <<<<TRUE, TRUE>>>>],
    [self |-> SingleNeuronNet(20, "IntegrateAndFire"),
     faulty_elements |-> <<"ResetPotentials", "PotentialsAtRest">>,
     damage_type |-> "StuckAt1", input |-> <<<<TRUE, FALSE>>>>],
    [self |-> SingleNeuronNet(20, "LeakyIntegrateAndFire"),
     faulty_elements |-> <<"Comparator", "Adder">>,
     damage_type |-> "TransientBitFlip", input |-> <<<<TRUE, TRUE>>>>],
    [self |-> SingleNeuronNet(20, "LeakyIntegrateAndFire"),
     faulty_elements |-> <<"Multiplier", "Divider">>,
     damage_type |-> "StuckAt1", input |-> <<<<TRUE, TRUE>>>>],
    [self |-> SingleNeuronNet(20, "IntegrateAndFire"),
     faulty_elements |-> <<"Weights">>,
     damage_type |-> "StuckAt0", input |-> <<<<FALSE, TRUE>>>>],
    [self |-> TwoLayerNet("LeakyIntegrateAndFire"),
     faulty_elements |-> <<"Thresholds">>,
     damage_type |-> "StuckAt0", input |-> <<<<TRUE>>, <<TRUE>>>>],
    [self |-> TwoLayerNet("LeakyIntegrateAndFire"),
     faulty_elements |-> <<"Thresholds">>,
     damage_type |-> "StuckAt1", input |-> <<<<TRUE>>, <<TRUE, FALSE>>>>],
    [self |-> TwoLayerNet("IntegrateAndFire"),
     faulty_elements |-> <<"Weights">>,
     damage_type |-> "StuckAt0", input |-> <<<<TRUE, FALSE>>, <<TRUE>>>>] } \cup
  { [self |-> SingleNeuronNet(20, m), faulty_elements |-> <<"Thresholds">>,
     damage_type |-> "StuckAt1", input |-> <<<<TRUE>>>>] : m \in NeuronModels } \cup
  { [self |-> SingleNeuronNet(20, "IntegrateAndFire"),
     faulty_elements |-> <<"Adder">>,
     damage_type |-> "TransientBitFlip", input |-> <<<<TRUE, TRUE>>>>],
    [self |-> SingleNeuronNet(20, "LeakyIntegrateAndFire"),
     faulty_elements |-> <<"Thresholds">>,
     damage_type |-> "TransientBitFlip", input |-> <<<<FALSE, TRUE>>>>],
    [self |-> SingleNeuronNet(20, "LeakyIntegrateAndFire"),
     faulty_elements |-> <<"Thresholds", "MembranePotentials">>,
     damage_type |-> "StuckAt1", input |-> <<<<FALSE, FALSE>>>>],
    [self |-> SingleNeuronNet(20, "IntegrateAndFire"),
     faulty_elements |-> <<"PotentialsAtRest", "Multiplier", "Divider">>,
     damage_type |-> "StuckAt0", input |-> <<<<TRUE, TRUE>>>>],
    [self |-> SingleNeuronNet(20, "IntegrateAndFire"),
     faulty_elements |-> <<"Multiplier", "Divider">>,
     damage_type |-> "TransientBitFlip", input |-> <<<<TRUE>>>>] }

\* simulate(&self, faulty_elements, damage_type, iterations, input) is called.
\* trials records, for every pass of the loop, the damaged clone, the detail
\* apply_damage_to_snn returned and the output of the damaged run.
\* again tells whether the caller repeats the call once it has returned, and
\* earlier is what the call before returned and drew.
SimStart(call, iterations, again) ==
  sim = [pc |-> "call", self |-> call.self, faulty_elements |-> call.faulty_elements,
         damage_type |-> call.damage_type, iterations |-> iterations,
         input |-> call.input, iteration_number |-> 0,
         output_without_damages |-> <<>>, simulation_result_matrix |-> <<>>,
         trials |-> <<>>, result |-> None, again |-> again, earlier |-> None]

InitSim ==
  /\ NoRun
  /\ \E call \in SimCalls : \E iterations \in 0..MaxIter : SimStart(call, iterations, FALSE)
  /\ reg = RegIdle
  /\ ret = None
  /\ OthersIdle

\* the input is not rectangular: simulate returns None
SimInvalid ==
  /\ sim.pc = "call"
  /\ ~input_matrix_is_valid(sim.input)
  /\ sim' = [sim EXCEPT !.pc = "done"]
  /\ UNCHANGED <<cli, regcall, unit, load, network, input, sent, taken, main, worker, collector, fired, reg, ret>>

\* the result matrix is created and a clone of the network is run undamaged
SimGolden ==
  /\ sim.pc = "call"
  /\ input_matrix_is_valid(sim.input)
  /\ sim' = [sim EXCEPT !.pc = "trial",
                        !.simulation_result_matrix = NewResultMatrix(sim.self, sim.input),
                        !.output_without_damages = run(clone(sim.self), clone(sim.input))]
  /\ UNCHANGED <<cli, regcall, unit, load, network, input, sent, taken, main, worker, collector, fired, reg, ret>>

\* a trial that goes on with the network of the trial before
TrialNetwork_Reuse(s) ==
  IF Len(s.trials) > 0 THEN s.trials[Len(s.trials)].snn ELSE clone(s.self)
\* let mut snn = self.clone()
TrialNetwork(s) == clone(s.self)

\* the weights apply_damage_to_snn may choose among
WeightIndexes(neuron, faulty_element, coin) ==
  IF faulty_element # "Weights" THEN {0}
  ELSE IF coin THEN 0..(Len(neuron.weights) - 1)
  ELSE 0..(Len(neuron.internal_weights) - 1)

\* the end of a pass of the loop: the outputs are compared; compare_outputs
\* panics on a cell that differs and lies outside the result matrix
TrialDone(snn, damage_detail, output_with_damage) ==
  IF \E c \in Cells(output_with_damage) \ Cells(sim.simulation_result_matrix) :
       output_with_damage[c[1]][c[2]] # sim.output_without_damages[c[1]][c[2]]
  THEN sim' = [sim EXCEPT !.pc = "panicked"]
  ELSE sim' = [sim EXCEPT
                 !.iteration_number = @ + 1,
                 !.simulation_result_matrix =
                    compare_outputs(sim.output_without_damages, output_with_damage, @,
                                    sim.iteration_number, damage_detail),
                 !.trials = Append(@, [snn |-> snn, damage_detail |-> damage_detail,
                                       output_with_damage |-> output_with_damage])]
\* the damaged clone d.snn is run on a clone of the input
TrialRun(d) == TrialDone(d.snn, d.detail, run(d.snn, clone(sim.input)))

\* a loop that, with no element to choose, runs the clone as it is
SimTrial_NoElement ==
  /\ sim.pc = "trial"
  /\ sim.iteration_number < sim.iterations
  /\ sim.faulty_elements = <<>>
  /\ TrialRun([snn |-> TrialNetwork(sim),
               detail |-> [at_iteration |-> 0, damage_type |-> "Weights", at_layer |-> 0,
                           at_neuron |-> 0, at_bit |-> 0]])
  /\ UNCHANGED <<cli, regcall, unit, load, network, input, sent, taken, main, worker, collector, fired, reg, ret>>
\* one pass of the loop of simulate, with the random draws of apply_damage_to_snn
\* (faulty_elements.choose gives Some element of a list that is not empty)
SimTrial ==
  /\ sim.pc = "trial"
  /\ sim.iteration_number < sim.iterations
  /\ \E faulty_element \in Range(sim.faulty_elements) :
     \E layer \in 0..(Len(sim.self.layers) - 1) :
     \E neuron \in 0..(Len(sim.self.layers[layer + 1]) - 1) :
     \E bit_position \in BitPositions :
     \E time_step \in 0..(Len(sim.input[1]) - 1) :
     \E coin \in IF faulty_element = "Weights" THEN BOOLEAN ELSE {TRUE} :
     \E weight_index \in WeightIndexes(sim.self.layers[layer + 1][neuron + 1],
                                       faulty_element, coin) :
       TrialRun(apply_damage_to_snn(TrialNetwork(sim), sim.damage_type, faulty_element,
                                    layer, neuron, bit_position, time_step, coin,
                                    weight_index))
  /\ UNCHANGED <<cli, regcall, unit, load, network, input, sent, taken, main, worker, collector, fired, reg, ret>>

\* after the loop: the actual values are filled and the result is returned
SimReturn ==
  /\ sim.pc = "trial"
  /\ sim.iteration_number >= sim.iterations
  /\ Cells(sim.output_without_damages) \subseteq Cells(sim.simulation_result_matrix)
  /\ sim' = [sim EXCEPT
               !.pc = "done",
               !.simulation_result_matrix = ActualValues(@, sim.output_without_damages),
               !.result = Some([number_of_iterations |-> sim.iterations,
                                type_of_damage |-> sim.damage_type,
                                output_without_damages |-> sim.output_without_damages,
                                diffs |-> ActualValues(sim.simulation_result_matrix,
                                                       sim.output_without_damages)])]
  /\ UNCHANGED <<cli, regcall, unit, load, network, input, sent, taken, main, worker, collector, fired, reg, ret>>

NextSim ==
  \/ SimInvalid
  \/ SimGolden
  \/ SimTrial
  \/ SimReturn

SpecSim == InitSim /\ [][NextSim]_vars

\* ----------- simulate on a network with any nr_outputs, called once or twice
\* simulate has returned and is called again with the same arguments
SimAgain ==
  /\ sim.pc = "done"
  /\ sim.again
  /\ sim.result.some
  /\ sim' = [sim EXCEPT
               !.pc = "call", !.again = FALSE,
               !.earlier = Some([result |-> sim.result.v, trials |-> sim.trials]),
               !.iteration_number = 0, !.output_without_damages = <<>>,
               !.simulation_result_matrix = <<>>, !.trials = <<>>, !.result = None]
  /\ UNCHANGED <<cli, regcall, unit, load, network, input, sent, taken, main, worker, collector, fired, reg, ret>>

\* simulate panics.  In a pass of the loop: faulty_elements.choose gives None
\* on the empty list, apply_damage_to_snn returns None with the clone as it
\* was, and the unwrap of simulate panics.  After the loop: the last loop
\* indexes the result matrix outside its rows.
SimPanic ==
  /\ sim.pc = "trial"
  /\ \/ /\ sim.iteration_number < sim.iterations
        /\ sim.faulty_elements = <<>>
     \/ /\ sim.iteration_number >= sim.iterations
        /\ ~(Cells(sim.output_without_damages) \subseteq Cells(sim.simulation_result_matrix))
  /\ sim' = [sim EXCEPT !.pc = "panicked"]
  /\ UNCHANGED <<cli, regcall, unit, load, network, input, sent, taken, main, worker, collector, fired, reg, ret>>

\* Network::new takes any nr_outputs and add_layer any layer: the networks of
\* one or two layers whose nr_outputs is below, at or above the size of the
\* last layer
ShapeNetworks ==
  {[SingleNeuronNet(20, m) EXCEPT !.nr_outputs = n] : m \in NeuronModels, n \in 0..2}
  \cup {[TwoLayerNet(m) EXCEPT !.nr_outputs = n] : m \in NeuronModels, n \in 1..2}
\* the calls checked; one of at most one iteration may be repeated
ShapeCalls ==
  { [self |-> snn, faulty_elements |-> elements, damage_type |-> "StuckAt0",
     input |-> inp] :
      snn \in ShapeNetworks, elements \in {<<"Thresholds">>, <<>>},
      inp \in {<<<<TRUE>>>>, <<<<TRUE, TRUE>>>>, <<<<TRUE>>, <<TRUE>>>>,
                <<<<TRUE>>, <<TRUE, FALSE>>>>} }

InitShape ==
  /\ NoRun
  /\ \E call \in {c \in ShapeCalls : Len(c.input) = c.self.nr_inputs} :
     \E iterations \in 0..MaxIter :
     \E again \in IF iterations <= 1 THEN BOOLEAN ELSE {FALSE} :
       SimStart(call, iterations, again)
  /\ reg = RegIdle
  /\ ret = None
  /\ OthersIdle

NextShape ==
  \/ SimInvalid
  \/ SimGolden
  \/ SimTrial
  \/ SimReturn
  \/ SimPanic
  \/ SimAgain

SpecShape == InitShape /\ [][NextShape]_vars

\* -------------------------------------------------- properties of simulate
\* simulate has returned a SimulationResult
SimReturned == sim.pc = "done" /\ sim.result.some
\* the trials whose damaged output differs from the golden one at cell (i, j)
DivergedTrials(i, j) ==
  {k \in DOMAIN sim.trials :
     sim.trials[k].output_with_damage[i][j] # sim.result.v.output_without_damages[i][j]}

\* C5: after simulate with N iterations, diff_count of every cell (i, j) is the
\* number of the N trials whose damaged output differs from the golden output
\* at (i, j); it lies in 0..N and is 0 when N = 0.
C5_DiffCount ==
  SimReturned =>
    /\ Len(sim.trials) = sim.result.v.number_of_iterations
    /\ \A i \in DOMAIN sim.result.v.diffs : \A j \in DOMAIN sim.result.v.diffs[i] :
         /\ sim.result.v.diffs[i][j].diff_count = Cardinality(DivergedTrials(i, j))
         /\ sim.result.v.diffs[i][j].diff_count \in 0..sim.result.v.number_of_iterations
         /\ sim.result.v.number_of_iterations = 0 => sim.result.v.diffs[i][j].diff_count = 0
\* of two trials one diverged at a cell and the other did not
C5_Witness ==
  /\ SimReturned
  /\ sim.result.v.number_of_iterations = 2
  /\ \E i \in DOMAIN sim.result.v.diffs : \E j \in DOMAIN sim.result.v.diffs[i] :
       sim.result.v.diffs[i][j].diff_count = 1

\* C6: in the result of simulate, actual_value of every cell is the golden
\* value XOR (diff_count > 0).
C6_ActualValue ==
  SimReturned =>
    \A i \in DOMAIN sim.result.v.diffs : \A j \in DOMAIN sim.result.v.diffs[i] :
      sim.result.v.diffs[i][j].actual_value =
        (sim.result.v.output_without_damages[i][j]
           # (sim.result.v.diffs[i][j].diff_count > 0))
\* a golden pulse that some trial lost is reported as no pulse
C6_Witness ==
  /\ SimReturned
  /\ \E i \in DOMAIN sim.result.v.diffs : \E j \in DOMAIN sim.result.v.diffs[i] :
       /\ sim.result.v.diffs[i][j].diff_count > 0
       /\ sim.result.v.output_without_damages[i][j]
       /\ ~sim.result.v.diffs[i][j].actual_value

\* the registers of a neuron, each with its field and its index in the field
ScalarRegisters ==
  {"v_th", "v_rest", "v_reset", "tau", "v_mem", "add_reg", "mul_reg", "cmp_reg", "div_reg"}
NeuronRegisters(neuron) ==
  {[field |-> f, index |-> 0, register |-> neuron[f]] : f \in ScalarRegisters}
  \cup {[field |-> "weights", index |-> k - 1, register |-> neuron.weights[k]] :
          k \in DOMAIN neuron.weights}
  \cup {[field |-> "internal_weights", index |-> k - 1,
         register |-> neuron.internal_weights[k]] : k \in DOMAIN neuron.internal_weights}
\* the registers of a network that carry a fault, each with its place
Faults(snn) ==
  UNION { UNION { {[layer |-> l - 1, neuron |-> n - 1, field |-> r.field,
                    index |-> r.index, damage |-> r.register.damage] :
                     r \in {q \in NeuronRegisters(snn.layers[l][n]) :
                              q.register.damage.kind # "Working"}} :
                  n \in DOMAIN snn.layers[l] } : l \in DOMAIN snn.layers }
\* the fields a kind of FaultyElement stands for
FieldsOf(faulty_element) ==
  CASE faulty_element = "Weights" -> {"weights", "internal_weights"}
    [] faulty_element = "Thresholds" -> {"v_th"}
    [] faulty_element = "MembranePotentials" -> {"v_mem"}
    [] faulty_element = "ResetPotentials" -> {"v_reset"}
    [] faulty_element = "PotentialsAtRest" -> {"v_rest"}
    [] faulty_element = "Comparator" -> {"cmp_reg"}
    [] faulty_element = "Adder" -> {"add_reg"}
    [] faulty_element = "Multiplier" -> {"mul_reg"}
    [] faulty_element = "Divider" -> {"div_reg"}
\* the fault f is the one the detail describes
Describes(damage_detail, f) ==
  /\ f.layer = damage_detail.at_layer
  /\ f.neuron = damage_detail.at_neuron
  /\ f.field \in FieldsOf(damage_detail.damage_type)
  /\ f.damage.bit_position = damage_detail.at_bit

\* C7: in the result of simulate, damage_details of cell (i, j) has diff_count
\* entries, one per trial that diverged at (i, j), in strictly increasing
\* at_iteration; each entry carries the number of its trial and the kind, layer,
\* neuron and bit of the fault injected in that trial.
C7_DamageDetails ==
  SimReturned =>
    \A i \in DOMAIN sim.result.v.diffs : \A j \in DOMAIN sim.result.v.diffs[i] :
      /\ Len(sim.result.v.diffs[i][j].damage_details) = sim.result.v.diffs[i][j].diff_count
      /\ {d.at_iteration + 1 : d \in Range(sim.result.v.diffs[i][j].damage_details)}
           = DivergedTrials(i, j)
      /\ \A a, b \in DOMAIN sim.result.v.diffs[i][j].damage_details :
           a < b => sim.result.v.diffs[i][j].damage_details[a].at_iteration
                      < sim.result.v.diffs[i][j].damage_details[b].at_iteration
      /\ \A d \in Range(sim.result.v.diffs[i][j].damage_details) :
           /\ d = [sim.trials[d.at_iteration + 1].damage_detail
                     EXCEPT !.at_iteration = d.at_iteration]
           /\ \A f \in Faults(sim.trials[d.at_iteration + 1].snn) : Describes(d, f)
\* a cell at which both of two trials diverged
C7_Witness ==
  /\ SimReturned
  /\ \E i \in DOMAIN sim.result.v.diffs : \E j \in DOMAIN sim.result.v.diffs[i] :
       Len(sim.result.v.diffs[i][j].damage_details) = 2

\* C8: in every trial exactly one register of the clone carries a fault; it is
\* a register of the kind drawn, which is one of faulty_elements, in the neuron
\* at the layer and index of the damage detail, and its fault is of the damage
\* model asked for.
C8_OneFault ==
  \A k \in DOMAIN sim.trials :
    /\ Cardinality(Faults(sim.trials[k].snn)) = 1
    /\ sim.trials[k].damage_detail.damage_type \in Range(sim.faulty_elements)
    /\ \A f \in Faults(sim.trials[k].snn) :
         /\ Describes(sim.trials[k].damage_detail, f)
         /\ f.damage.kind = sim.damage_type
\* a trial whose Weights fault went to a weight internal to the layer
C8_Witness ==
  \E k \in DOMAIN sim.trials :
    /\ sim.trials[k].damage_detail.damage_type = "Weights"
    /\ \E f \in Faults(sim.trials[k].snn) : f.field = "internal_weights"

\* a neuron, and a network, with every register Working
NeuronRepaired(neuron) ==
  [f \in DOMAIN neuron |->
     IF f \in ScalarRegisters THEN apply_damage(neuron[f], Working)
     ELSE IF f \in {"weights", "internal_weights"}
     THEN [k \in DOMAIN neuron[f] |-> apply_damage(neuron[f][k], Working)]
     ELSE neuron[f]]
Repaired(snn) ==
  [snn EXCEPT !.layers =
     [l \in DOMAIN snn.layers |->
        [n \in DOMAIN snn.layers[l] |-> NeuronRepaired(snn.layers[l][n])]]]
\* the golden run: an unfaulted network gave the output run gives on it
GoldenIsClean ==
  sim.pc = "call" /\ sim'.pc = "trial" =>
    /\ Faults(sim.self) = {}
    /\ sim'.output_without_damages = run(sim.self, sim.input)
\* a trial: but for its own fault the network run is the one simulate was
\* called on, and the output recorded is that of this network
TrialIsClean ==
  sim.pc = "trial" /\ sim'.pc = "trial" =>
    /\ Repaired(sim'.trials[Len(sim'.trials)].snn) = sim.self
    /\ \A f \in Faults(sim'.trials[Len(sim'.trials)].snn) :
         Describes(sim'.trials[Len(sim'.trials)].damage_detail, f)
    /\ sim'.trials[Len(sim'.trials)].output_with_damage
         = run(sim'.trials[Len(sim'.trials)].snn, sim.input)
\* C9: simulate never modifies the network it is called on; the golden run and
\* every trial work on a fresh clone of it, so that the golden run sees no
\* fault, a trial sees no fault but its own, and no state of a run is carried
\* to another.
C9_FreshClones ==
  [][sim'.self = sim.self /\ sim'.input = sim.input /\ GoldenIsClean /\ TrialIsClean]_vars
\* a second trial was run, on a network whose fault differs from the first's
C9_Witness ==
  /\ Len(sim.trials) = 2
  /\ Faults(sim.trials[1].snn) # Faults(sim.trials[2].snn)

\* the rows of matrix m do not all have the same length
Ragged(m) == \E i \in DOMAIN m : \E j \in DOMAIN m : Len(m[i]) # Len(m[j])
\* C18: simulate called with an input whose rows differ in length returns no
\* result, before the golden run and any trial, and leaves the network as it
\* was.
C18_RaggedInputRejected ==
  /\ [](Ragged(sim.input) =>
          /\ sim.pc \in {"call", "done"}
          /\ sim.result = None
          /\ sim.output_without_damages = <<>>
          /\ sim.trials = <<>>)
  /\ [][Ragged(sim.input) => sim'.pc = "done" /\ sim'.self = sim.self]_vars
\* simulate has returned from a call with a ragged input and iterations to run
C18_Witness ==
  /\ sim.pc = "done"
  /\ Ragged(sim.input)
  /\ sim.iterations > 0
  /\ sim.result = None

\* ---------------------------------------------------------------- Register
\* the values written to the register under test: all bits clear, all set,
\* alternating, and numbers, the zeros, infinities, a NaN and a subnormal
RegValues ==
  {PosZero, 2^SignBit, 2^WordBits - 1,
   FromBits([b \in BitPositions |-> b % 2], 0),
   FromBits([b \in BitPositions |-> (b + 1) % 2], 0),
   F64(1), F64(-55), F64(-70), F64(20), Inf(0), Inf(1), DefaultNaN, 1}
\* the time steps of a read, and the argument current_time_step
RegSteps == 0..(MaxT - 1)
ReadSteps == {None} \cup {Some(step) : step \in RegSteps}
RegDamages ==
  {Working}
  \cup {StuckAt0(b) : b \in BitPositions}
  \cup {StuckAt1(b) : b \in BitPositions}
  \cup {TransientBitFlip(b, step) : b \in BitPositions, step \in RegSteps}

\* the regcall made on reg and its arguments; written is the value last given to
\* Register::new or write_value
RegCall(op, value, damage, current_time_step, written) ==
  [op |-> op, value |-> value, damage |-> damage, current_time_step |-> current_time_step,
   written |-> written]

\* Register::new(value); ret is what the last regcall on reg returned
InitReg ==
  /\ NoRun
  /\ sim = SimIdle
  /\ unit = UnitIdle
  /\ load = LoadIdle
  /\ cli = CliIdle
  /\ \E value \in RegValues :
       /\ reg = Register_new(value)
       /\ regcall = RegCall("new", value, Working, None, value)
  /\ ret = None

RegWrite ==
  /\ \E value \in RegValues :
       /\ reg' = write_value(reg, value)
       /\ regcall' = RegCall("write", value, Working, None, value)
  /\ ret' = None
  /\ UNCHANGED <<cli, unit, load, network, input, sent, taken, main, worker, collector, fired, sim>>

RegApplyDamage ==
  /\ \E damage \in RegDamages :
       /\ reg' = apply_damage(reg, damage)
       /\ regcall' = RegCall("apply_damage", PosZero, damage, None, regcall.written)
  /\ ret' = None
  /\ UNCHANGED <<cli, unit, load, network, input, sent, taken, main, worker, collector, fired, sim>>

RegRead ==
  /\ \E current_time_step \in ReadSteps :
       /\ ret' = read_value(reg, current_time_step)
       /\ regcall' = RegCall("read", PosZero, Working, current_time_step, regcall.written)
  /\ UNCHANGED <<cli, unit, load, network, input, sent, taken, main, worker, collector, fired, sim,
                 reg>>

NextReg ==
  \/ RegWrite
  \/ RegApplyDamage
  \/ RegRead

SpecReg == InitReg /\ [][NextReg]_vars

\* ------------------------------------------------ properties of Register
\* C10: a read of a register with StuckAt0{b} returns the stored bits with bit
\* b cleared, and with StuckAt1{b} the stored bits with bit b set; the other
\* bits are those stored, whatever the step of the read, and reading again
\* returns the same.
C10_StuckAtMask ==
  reg.damage.kind \in {"StuckAt0", "StuckAt1"} /\ ret # None =>
    /\ ret.some
    /\ Bit(ret.v, reg.damage.bit_position) = (IF reg.damage.kind = "StuckAt0" THEN 0 ELSE 1)
    /\ \A b \in BitPositions \ {reg.damage.bit_position} :
         Bit(ret.v, b) = Bit(reg.value, b)
    /\ \A current_time_step \in ReadSteps : read_value(reg, current_time_step) = ret
\* a read that cleared a bit stored as 1
C10_Witness ==
  /\ reg.damage.kind = "StuckAt0"
  /\ ret.some
  /\ Bit(reg.value, reg.damage.bit_position) = 1
  /\ ret.v = reg.value - 2^reg.damage.bit_position

\* the word w with bit b inverted
Flipped(w, b) == IF Bit(w, b) = 1 THEN w - 2^b ELSE w + 2^b
\* the last regcall on reg was a read, with or without a current step
WasRead == regcall.op = "read"
WasReadAt == regcall.op = "read" /\ regcall.current_time_step.some

\* C11: a read of a register with TransientBitFlip{b, s} at current step s
\* returns the value last written with bit b inverted, a read at any other
\* step returns the value last written, and no read changes the register, so
\* the flip is not persisted.
C11_TransientLocality ==
  /\ [](reg.damage.kind = "TransientBitFlip" /\ WasReadAt =>
          ret = Some(IF regcall.current_time_step.v = reg.damage.time_step
                     THEN Flipped(regcall.written, reg.damage.bit_position)
                     ELSE regcall.written))
  /\ [][regcall'.op = "read" => reg' = reg]_vars
\* a read at the step of the flip returned the stored word with one bit changed
C11_Witness ==
  /\ reg.damage.kind = "TransientBitFlip"
  /\ WasReadAt
  /\ regcall.current_time_step.v = reg.damage.time_step
  /\ ret.some
  /\ ret.v # reg.value
  /\ reg.value = regcall.written

\* C12: a read of a Working register, with or without a current step, returns
\* exactly the value last written (the construction value if none was), for
\* every bit pattern.
C12_WorkingReadsLastWrite ==
  reg.damage.kind = "Working" /\ WasRead => ret = Some(regcall.written)
\* a NaN came back bit for bit from a read without a current step
C12_Witness ==
  /\ reg.damage.kind = "Working"
  /\ WasRead
  /\ ~regcall.current_time_step.some
  /\ ret = Some(2^WordBits - 1)

C14_ReadWithoutStep ==
  /\ [](WasRead /\ ~regcall.current_time_step.some =>
          (ret.some <=> reg.damage.kind # "TransientBitFlip"))
  /\ [][regcall'.op = "read" /\ ~regcall'.current_time_step.some => reg' = reg]_vars
\* a read without a current step failed on a register with a transient flip
C14_Witness ==
  /\ WasRead
  /\ ~regcall.current_time_step.some
  /\ reg.damage.kind = "TransientBitFlip"
  /\ ret = None

\* ------------------------------------------------------------------ Neuron
\* The neuron under test is neuron 0 of a layer of two, behind two inputs; it
\* reaches its threshold exactly on a pulse of input 0 from rest.
UnitNeuron ==
  set_internal_weights(
    set_weights(Neuron_new(F64(-55), F64(-70), F64(-70), F64(10)), <<F64(15), F64(5)>>),
    <<F64(0), F64(-5)>>)
\* the faults it may carry
UnitFaults ==
  { [faulty_element |-> "Thresholds", damage |-> StuckAt0(SignBit)],
    [faulty_element |-> "Comparator", damage |-> StuckAt1(SignBit)],
    [faulty_element |-> "ResetPotentials", damage |-> TransientBitFlip(ManBits, 1)],
    [faulty_element |-> "MembranePotentials", damage |-> StuckAt1(ManBits - 1)] }
UnitNeurons ==
  {UnitNeuron}
  \cup {DamageNeuron(UnitNeuron, f.faulty_element, f.damage, TRUE, 0) : f \in UnitFaults}
\* the lists of pulse sources of a call
UnitSources == {<<>>, <<0>>, <<1>>, <<0, 1>>}
\* time_step_duration_ms of a network with time steps of 1000 us
UnitDt == F64Div(F64(1000), F64(1000))

\* unit after a call op at time_step: neuron is the neuron after the call and
\* fired is what the call returned; before is the neuron the call was made on and
\* updated the neuron as update_membrane_potential left it within the call.
\* The calls follow the thread of a layer: at each time step the inhibition,
\* if any, comes before feed_pulses, and the time step never decreases.
UnitAfter(op, neuron, returned, updated, pulse_sources, time_step) ==
  [op |-> op, model |-> unit.model, neuron |-> neuron, fired |-> returned,
   before |-> unit.neuron, updated |-> updated, pulse_sources |-> pulse_sources,
   time_step |-> time_step,
   feed_from |-> IF op = "feed" THEN time_step + 1 ELSE time_step,
   inhibit_from |-> time_step + 1]

InitNeuron ==
  /\ NoRun
  /\ sim = SimIdle
  /\ reg = RegIdle
  /\ ret = None
  /\ regcall = CallIdle
  /\ load = LoadIdle
  /\ cli = CliIdle
  /\ \E neuron \in UnitNeurons : \E model \in NeuronModels :
       unit = [op |-> "new", model |-> model, neuron |-> neuron, fired |-> FALSE,
               before |-> neuron, updated |-> neuron, pulse_sources |-> <<>>,
               time_step |-> 0, feed_from |-> 0, inhibit_from |-> 0]

\* the result r of feed_pulses is taken
UnitFed(r, updated, pulse_sources, time_step) ==
  unit' = UnitAfter("feed", r.neuron, r.fired, updated, pulse_sources, time_step)

NeuronFeed ==
  /\ unit.op # "idle"
  /\ \E pulse_sources \in UnitSources : \E time_step \in unit.feed_from..(MaxT - 1) :
       UnitFed(feed_pulses(unit.neuron, pulse_sources, time_step, UnitDt, unit.model),
               update_membrane_potential(unit.neuron, pulse_sources, time_step, UnitDt,
                                         unit.model, "Excitatory"),
               pulse_sources, time_step)
  /\ UNCHANGED <<cli, network, input, sent, taken, main, worker, collector, fired, sim, reg, ret,
                 regcall, load>>

NeuronInhibit ==
  /\ unit.op # "idle"
  /\ \E pulse_sources \in UnitSources :
     \E time_step \in (IF unit.inhibit_from > unit.feed_from
                       THEN unit.inhibit_from ELSE unit.feed_from)..(MaxT - 1) :
       unit' = UnitAfter("inhibit",
                         inhibite_after_pulses_emission(unit.neuron, pulse_sources,
                                                        time_step, UnitDt, unit.model),
                         FALSE,
                         update_membrane_potential(unit.neuron, pulse_sources, time_step,
                                                   UnitDt, unit.model, "Inhibitive"),
                         pulse_sources, time_step)
  /\ UNCHANGED <<cli, network, input, sent, taken, main, worker, collector, fired, sim, reg, ret,
                 regcall, load>>

NextNeuron ==
  \/ NeuronFeed
  \/ NeuronInhibit

SpecNeuron == InitNeuron /\ [][NextNeuron]_vars

\* --------------------------------------------------- properties of Neuron
\* the f64 x is >= 0.0
NotNegative(x) == ~IsNaN(x) /\ (SignOf(x) = 0 \/ ExpField(x) + Frac(x) = 0)
\* what a read of register r at the time step of the last call gives
ReadAt(r) == Unwrap(read_value(r, Some(unit.time_step)))
\* what cmp_reg reads once the difference of the updated potential and the
\* threshold is stored in it
ComparatorReads ==
  ReadAt(write_value(unit.updated.cmp_reg,
                     F64Sub(ReadAt(unit.updated.v_mem), ReadAt(unit.updated.v_th))))

WasUpdated == unit.op \in {"feed", "inhibit"} /\ NeuronRepaired(unit.before) = unit.before
\* 0.0 plus the values of the registers at the first k sources, in their order
RECURSIVE SumOf(_, _, _)
SumOf(registers, pulse_sources, k) ==
  IF k = 0 THEN F64(0)
  ELSE F64Add(SumOf(registers, pulse_sources, k - 1),
              registers[pulse_sources[k] + 1].value)
\* the weights the last call selected, and their sum over its sources
SelectedWeights ==
  IF unit.op = "feed" THEN unit.before.weights ELSE unit.before.internal_weights
PulsesContrib == SumOf(SelectedWeights, unit.pulse_sources, Len(unit.pulse_sources))
\* exp((last_pulse_step - step) * time_step_duration_ms / tau)
Decay ==
  F64Exp(F64Div(F64Mul(F64Sub(F64(unit.before.last_received_pulse_step),
                              F64(unit.time_step)),
                       UnitDt),
                unit.before.tau.value))

\* C16: under LeakyIntegrateAndFire with all registers Working, a membrane
\* update (excitatory or inhibitive) sets v_mem to
\* v_rest + (v_mem - v_rest) * decay + pulses_contrib; when last_pulse_step is
\* the step of the update, the new v_mem is the old v_mem plus pulses_contrib.
C16_LeakyUpdate ==
  WasUpdated /\ unit.model = "LeakyIntegrateAndFire" =>
    /\ unit.updated.v_mem.value
         = F64Add(F64Add(unit.before.v_rest.value,
                         F64Mul(F64Sub(unit.before.v_mem.value, unit.before.v_rest.value),
                                Decay)),
                  PulsesContrib)
    /\ unit.before.last_received_pulse_step = unit.time_step =>
         unit.updated.v_mem.value = F64Add(unit.before.v_mem.value, PulsesContrib)

\* C17: under IntegrateAndFire with all registers Working, a membrane update
\* sets v_mem to the old v_mem plus the sum of weights[s] over the sources s
\* of feed_pulses, of internal_weights[s] over those of the inhibition, with
\* no decay; with no source v_mem is unchanged.
C17_IntegrateUpdate ==
  WasUpdated /\ unit.model = "IntegrateAndFire" =>
    /\ unit.updated.v_mem.value = F64Add(unit.before.v_mem.value, PulsesContrib)
    /\ unit.pulse_sources = <<>> => unit.updated.v_mem.value = unit.before.v_mem.value
\* an inhibition by two sources lowered a potential that was not at rest, at a
\* time step later than the last pulse
C17_Witness ==
  /\ WasUpdated
  /\ unit.model = "IntegrateAndFire"
  /\ unit.op = "inhibit"
  /\ Len(unit.pulse_sources) = 2
  /\ unit.before.v_mem.value # unit.before.v_rest.value
  /\ unit.before.last_received_pulse_step < unit.time_step
  /\ unit.updated.v_mem.value = F64Sub(unit.before.v_mem.value, F64(5))

\* ------------------------------------------------------ json::load_from_file
\* struct NeuronData, LayerData, NetworkData; the descriptions checked give a
\* neuron of a layer of size neurons any number of weights up to MaxWidth
NeuronDatas(size) ==
  { [weights |-> [i \in 1..fan_in |-> F64(10)],
     internal_weights |-> [i \in 1..size |-> F64(0)],
     v_th |-> F64(-55), v_rest |-> F64(-70), v_reset |-> F64(-70), tau |-> F64(10)] :
    fan_in \in 1..MaxWidth }
LayerDatas ==
  UNION { {[neurons |-> neurons] : neurons \in [1..size -> NeuronDatas(size)]} :
          size \in 1..MaxWidth }
NetworkDatas ==
  { [time_step_duration_us |-> F64(1000), nr_inputs |-> nr_inputs,
     nr_outputs |-> nr_outputs, layers |-> layers] :
    nr_inputs \in 1..MaxWidth, nr_outputs \in 1..MaxWidth,
    layers \in UNION { [1..depth -> LayerDatas] : depth \in 1..MaxDepth } }
\* the file at path: missing, not a NetworkData in JSON, or one
Files ==
  { [kind |-> "missing"], [kind |-> "malformed"] }
  \cup { [kind |-> "json", nd |-> nd] : nd \in NetworkDatas }

\* the neuron built from a NeuronData
LoadNeuron(neuron_data) ==
  set_internal_weights(
    set_weights(Neuron_new(neuron_data.v_th, neuron_data.v_rest, neuron_data.v_reset,
                           neuron_data.tau),
                neuron_data.weights),
    neuron_data.internal_weights)
\* the loop over nd.layers from layer k on
RECURSIVE LoadLayers(_, _, _)
LoadLayers(net, layers, k) ==
  IF k > Len(layers) THEN net
  ELSE LoadLayers(add_layer(net, [i \in 1..Len(layers[k].neurons) |->
                                   LoadNeuron(layers[k].neurons[i])]),
                  layers, k + 1)
\* the network load_from_file returns for the description nd; the neuron model
\* Network::new takes is not part of the description
load_from_file(nd, model) ==
  LoadLayers(Network_new(nd.time_step_duration_us, nd.nr_inputs, nd.nr_outputs, model),
             nd.layers, 1)

InitLoad ==
  /\ NoRun
  /\ sim = SimIdle
  /\ reg = RegIdle
  /\ ret = None
  /\ regcall = CallIdle
  /\ unit = UnitIdle
  /\ cli = CliIdle
  /\ \E file \in Files : load = [pc |-> "call", file |-> file, network |-> None]

\* fs::read_to_string or serde_json::from_str fails: expect panics
LoadPanic ==
  /\ load.pc = "call"
  /\ load.file.kind # "json"
  /\ load' = [load EXCEPT !.pc = "panicked"]
  /\ UNCHANGED <<cli, network, input, sent, taken, main, worker, collector, fired, sim, reg, ret,
                 regcall, unit>>

\* the description is read and the network built from it is returned
LoadReturn ==
  /\ load.pc = "call"
  /\ load.file.kind = "json"
  /\ \E model \in NeuronModels :
       load' = [load EXCEPT !.pc = "done",
                            !.network = Some(load_from_file(load.file.nd, model))]
  /\ UNCHANGED <<cli, network, input, sent, taken, main, worker, collector, fired, sim, reg, ret,
                 regcall, unit>>

NextLoad ==
  \/ LoadPanic
  \/ LoadReturn

SpecLoad == InitLoad /\ [][NextLoad]_vars

\* ------------------------------------------ properties of load_from_file
\* the number of sources of layer k of description nd
FanIn(nd, k) == IF k = 1 THEN nd.nr_inputs ELSE Len(nd.layers[k - 1].neurons)
\* every neuron of nd has one weight per source, and nr_outputs is the size of
\* the last layer
TopologyValid(nd) ==
  /\ \A k \in DOMAIN nd.layers : \A i \in DOMAIN nd.layers[k].neurons :
       Len(nd.layers[k].neurons[i].weights) = FanIn(nd, k)
  /\ nd.nr_outputs = Len(nd.layers[Len(nd.layers)].neurons)

\* C20: loading a description in which some neuron has a number of weights
\* other than its fan-in, or in which nr_outputs is not the size of the last
\* layer, yields no Network.
C20_LoadRejectsBadTopology ==
  load.pc # "idle" /\ load.file.kind = "json" /\ ~TopologyValid(load.file.nd) =>
    load.network = None

\* ------------------------------------------------ the scenarios of simulate
\* simulate was called on the single-neuron network of weight 20 with the
\* input inp, for faults of kind damage_type
ScenarioCall(inp, damage_type) ==
  /\ sim.pc # "idle"
  /\ \E m \in NeuronModels : sim.self = SingleNeuronNet(20, m)
  /\ sim.input = inp
  /\ sim.damage_type = damage_type
\* the only trial of the call put StuckAt1 on the sign bit of v_th
SignBitTrial ==
  /\ ScenarioCall(<<<<TRUE>>>>, "StuckAt1")
  /\ SimReturned
  /\ sim.iterations = 1
  /\ sim.trials[1].snn.layers[1][1].v_th.damage = StuckAt1(SignBit)

\* C21 as stated: on the single-neuron network of weight 20 and input
\* [[true]], a trial with StuckAt1 on the sign bit of v_th has the damaged
\* output [[false]] against the golden [[true]], so that diff_count of cell
\* (0, 0) is 1 after that one iteration.
C21_SignBitSilencesNeuron ==
  SignBitTrial =>
    /\ sim.result.v.output_without_damages = <<<<TRUE>>>>
    /\ sim.trials[1].output_with_damage = <<<<FALSE>>>>
    /\ sim.result.v.diffs[1][1].diff_count = 1
\* C21 amended: the sign bit of v_th = -55 is already 1, so StuckAt1 on it
\* leaves every read of v_th unchanged: the damaged output is [[true]] as the
\* golden one, and diff_count of cell (0, 0) is 0 after that one iteration.
C21_SignBitAlreadySet ==
  SignBitTrial =>
    /\ sim.result.v.output_without_damages = <<<<TRUE>>>>
    /\ sim.trials[1].output_with_damage = <<<<TRUE>>>>
    /\ sim.result.v.diffs[1][1].diff_count = 0
C21_Witness ==
  /\ SignBitTrial
  /\ sim.trials[1].damage_detail.damage_type = "Thresholds"
  /\ sim.trials[1].damage_detail.at_bit = SignBit
  /\ read_value(sim.trials[1].snn.layers[1][1].v_th, Some(0)) = Some(F64(-55))

\* ---------------------------------------------------- the scenarios of run
\* run was called on the lateral-inhibition network and both neurons of its
\* layer fired at time step 0
BothFiredAtStep0 ==
  /\ \E m \in NeuronModels : main.self = LateralNet(m)
  /\ {<<0, 0>>, <<1, 0>>} \subseteq fired[0]

\* C22: in the one-layer network of two neurons with internal_weights[other]
\* = -100 and internal_weights[self] = 0, when both neurons fire at step 0
\* neither fires at step 1, whatever the input of step 1: no Pulse of step 1
\* is ever sent, and column 1 of the returned output is all false.
C22_LateralInhibition ==
  BothFiredAtStep0 =>
    /\ \A i \in 0..1 : <<i, 1>> \notin fired[0]
    /\ Returned /\ Len(input[1]) > 1 => \A i \in 1..2 : ~collector.output[i][2]
\* both fired at step 0 and step 1 brings a pulse of weight 20, which takes a
\* neuron at rest from -70 to -50, above v_th = -55
C22_Witness ==
  /\ BothFiredAtStep0
  /\ Returned
  /\ Len(input[1]) > 1
  /\ \E i \in 1..2 : input[i][2]
  /\ F64GeZero(F64Sub(F64Add(F64(-70), main.self.layers[1][1].weights[1].value), F64(-55)))

FlipTrials ==
  {k \in DOMAIN sim.trials :
     sim.trials[k].snn.layers[1][1].add_reg.damage = TransientBitFlip(0, 0)}

\* C23: on the single-neuron network of weight 20 with input [[true, true]], a
\* trial that injects TransientBitFlip{bit 0, step 0} on add_reg has a damaged
\* output whose column of step 1 is the golden column of step 1: only the
\* column of step 0 may differ.
C23_FlipStaysInItsStep ==
  ScenarioCall(<<<<TRUE, TRUE>>>>, "TransientBitFlip") =>
    \A k \in FlipTrials :
      sim.trials[k].output_with_damage[1][2] = sim.output_without_damages[1][2]
C23_Witness ==
  /\ ScenarioCall(<<<<TRUE, TRUE>>>>, "TransientBitFlip")
  /\ SimReturned
  /\ sim.output_without_damages = <<<<TRUE, TRUE>>>>
  /\ \E k \in FlipTrials :
       /\ sim.trials[k].damage_detail.damage_type = "Adder"
       /\ sim.trials[k].output_with_damage[1][2]

\* ----------------------------------------------- main: the list of elements
\* the element names of the command line
ElementTokens ==
  {"weights", "thresholds", "membrane_potentials", "reset_potentials", "potentials_at_rest",
   "comparator", "adder", "multiplier", "divider"}
\* what damaged_elements_list.replace(" ", "").split(",") may give: a list of
\* at least one token, each an element name, the empty string or another word
ElementLists ==
  UNION { [1..n -> ElementTokens \cup {"", "neurons"}] : n \in 1..MaxElements }

\* the match of main on one token: the FaultyElement it pushes, or none where
\* it panics
MatchElement(element) ==
  CASE element = "weights" -> [some |-> TRUE, v |-> "Weights"]
    [] element = "thresholds" -> [some |-> TRUE, v |-> "Weights"]
    [] element = "membrane_potentials" -> [some |-> TRUE, v |-> "MembranePotentials"]
    [] element = "reset_potentials" -> [some |-> TRUE, v |-> "ResetPotentials"]
    [] element = "potentials_at_rest" -> [some |-> TRUE, v |-> "PotentialsAtRest"]
    [] OTHER -> [some |-> FALSE, v |-> ""]

\* main starts on the list args; faulty_elements is empty
InitCli ==
  /\ NoRun
  /\ sim = SimIdle
  /\ reg = RegIdle
  /\ ret = None
  /\ regcall = CallIdle
  /\ unit = UnitIdle
  /\ load = LoadIdle
  /\ \E args \in ElementLists :
       cli = [pc |-> "elements", args |-> args, rest |-> args, faulty_elements |-> <<>>]

\* one pass of the loop over the tokens: the element is pushed, or main panics;
\* after the last token main goes on with the list parsed
CliElement ==
  /\ cli.pc = "elements"
  /\ \/ /\ MatchElement(Head(cli.rest)).some
        /\ cli' = [cli EXCEPT
                     !.pc = IF Len(cli.rest) = 1 THEN "parsed" ELSE "elements",
                     !.rest = Tail(@),
                     !.faulty_elements = Append(@, MatchElement(Head(cli.rest)).v)]
     \/ /\ ~MatchElement(Head(cli.rest)).some
        /\ cli' = [cli EXCEPT !.pc = "panicked"]
  /\ UNCHANGED <<network, input, sent, taken, main, worker, collector, fired, sim, reg, ret,
                 regcall, unit, load>>

NextCli == CliElement

SpecCli == InitCli /\ [][NextCli]_vars

\* the fault element kind of the same name as a token
KindNamed ==
  [weights |-> "Weights", thresholds |-> "Thresholds",
   membrane_potentials |-> "MembranePotentials", reset_potentials |-> "ResetPotentials",
   potentials_at_rest |-> "PotentialsAtRest", comparator |-> "Comparator",
   adder |-> "Adder", multiplier |-> "Multiplier", divider |-> "Divider"]

\* C25: the parser of the element list accepts each of the nine element names
\* and maps it to the fault element kind of the same name (thresholds to
\* Thresholds), and it rejects every other token: a list is parsed only if all
\* its tokens are element names, the kinds pushed are then those named, in
\* order, and main panics only on a list with a token that is no element name.
C25_ElementsParsed ==
  /\ cli.pc = "parsed" =>
        /\ \A k \in DOMAIN cli.args : cli.args[k] \in ElementTokens
        /\ cli.faulty_elements = [k \in DOMAIN cli.args |-> KindNamed[cli.args[k]]]
  /\ cli.pc = "panicked" => \E k \in DOMAIN cli.args : cli.args[k] \notin ElementTokens

\* --------------------------------------- the shape of the result of simulate
\* C26: the diffs matrix simulate returns has nr_outputs rows and T columns,
\* which is the shape of output_without_damages, and its cell (i, j) has
\* output_index = i and time_step = j.
C26_DiffsShape ==
  SimReturned =>
    /\ Len(sim.result.v.diffs) = sim.self.nr_outputs
    /\ \A i \in DOMAIN sim.result.v.diffs :
         /\ Len(sim.result.v.diffs[i]) = Len(sim.input[1])
         /\ \A j \in DOMAIN sim.result.v.diffs[i] :
              /\ sim.result.v.diffs[i][j].output_index = i - 1
              /\ sim.result.v.diffs[i][j].time_step = j - 1
    /\ Cells(sim.result.v.diffs) = Cells(sim.result.v.output_without_damages)

\* C27: two invocations of simulate with the same arguments, under the same
\* seed of the random generator, draw the same sequence of faults and return
\* the same result: the same diffs, with the same damage details. (simulate
\* takes no seed and draws from thread_rng(), so the arguments are all that a
\* caller can hold fixed.)
C27_SameCallSameResult ==
  SimReturned /\ sim.earlier.some =>
    /\ [k \in DOMAIN sim.trials |-> sim.trials[k].snn]
         = [k \in DOMAIN sim.earlier.v.trials |-> sim.earlier.v.trials[k].snn]
    /\ sim.result.v.diffs = sim.earlier.v.result.diffs
    /\ [k \in DOMAIN sim.trials |-> sim.trials[k].damage_detail]
         = [k \in DOMAIN sim.earlier.v.trials |-> sim.earlier.v.trials[k].damage_detail]

\* ------------------------------------------- the time steps of the workers
\* the sources of the pairs of set pairs whose time step is k
SourcesAt(pairs, k) == {p[1] : p \in {q \in pairs : q[2] = k}}
\* what is emitted towards layer n for time step k: by the injection loop for
\* layer 0, by layer n - 1 in its iteration k otherwise
Upstream(n, k) ==
  IF n = 0 THEN {i \in 0..(Len(input) - 1) : input[i + 1][k + 1]}
  ELSE SourcesAt(fired[n - 1], k)

\* C28: the time steps of the layers stay aligned: in its iteration k layer n
\* feeds to its neurons exactly the Pulses that layer n - 1 (the injection
\* loop for n = 0) emitted for time step k, whatever the interleaving; a Pulse
\* of a later upstream step is never processed under an earlier step index.
C28_StepsAligned ==
  /\ \A n \in DOMAIN worker : \A p \in worker[n].fed : p[1] \in Upstream(n, p[2])
  /\ Returned =>
       \A n \in DOMAIN worker : \A k \in 0..(main.snn_time_steps_number - 1) :
         SourcesAt(worker[n].fed, k) = Upstream(n, k)

\* ------------------------------------------------ the messages of a channel
RECURSIVE BatchBefore(_, _)
\* the sources of the Pulses that stand right before position pos of msgs
BatchBefore(msgs, pos) ==
  IF pos <= 1 \/ msgs[pos - 1].type # "Pulse" THEN <<>>
  ELSE Append(BatchBefore(msgs, pos - 1), msgs[pos - 1].source)
\* the thread of layer n has ended the receive loop of its iteration on the
\* GoAhead that ends the batch it holds, or on the close of the drained channel
BatchEnded(n) ==
  \/ /\ taken[n] > 0
     /\ sent[n][taken[n]].type = "GoAhead"
     /\ worker[n].pulse_sources = BatchBefore(sent[n], taken[n])
  \/ /\ Closed(n)
     /\ taken[n] = Len(sent[n])
\* nothing more is sent on channel n: the injection loop has ended, or the
\* thread that owns the sender has ended its iteration
SenderRests(n) ==
  IF n = 0 THEN TRUE ELSE worker[n - 1].pc \notin {"feed", "goahead"}

\* C29: within an iteration a worker sends no Pulse and no GoAhead downstream
\* before it has consumed the GoAhead that ends the upstream batch of the
\* iteration (or seen the channel closed); and on every channel every Pulse is
\* followed by a GoAhead before the channel closes: the messages of a channel
\* have the form (Pulse* GoAhead)*.
C29_BatchesEndWithGoAhead ==
  /\ [][\A n \in DOMAIN worker : sent'[n + 1] # sent[n + 1] => BatchEnded(n)]_vars
  /\ [](\A n \in DOMAIN sent :
          SenderRests(n) /\ sent[n] # <<>> => sent[n][Len(sent[n])].type = "GoAhead")
\* the second layer has sent two batches, one of them with a Pulse, and its
\* channel is closed
C29_Witness ==
  /\ Returned
  /\ main.number_of_layers = 2
  /\ fired[1] # {}
  /\ GoAheads(sent[2], Len(sent[2])) = 2
  /\ Closed(2)

\* ------------------------------------------------ the inhibition of a layer
\* the number of iterations in which the thread of layer n has ended its
\* receive loop
ReceiveLoopsEnded(n) ==
  worker[n].time_step + (IF worker[n].pc \in {"feed", "goahead"} THEN 1 ELSE 0)
\* the thread of layer n is about to call feed_pulses for the first time in
\* its iteration
FeedStarts(n) == worker[n].pc = "feed" /\ worker[n].i = 0

\* C30: in every iteration k > 0 a worker inhibits every neuron of its layer
\* with exactly the neurons of the layer that fired in iteration k - 1 (none
\* if none fired), before any feed_pulses of iteration k, and then clears the
\* set; in iteration 0 it inhibits nobody; and inhibition sends no Pulse.
C30_InhibitionByLastStep ==
  /\ [](\A n \in DOMAIN worker :
          /\ Len(worker[n].inhibited)
               = (IF ReceiveLoopsEnded(n) = 0 THEN 0 ELSE ReceiveLoopsEnded(n) - 1)
          /\ \A k \in DOMAIN worker[n].inhibited :
               /\ worker[n].inhibited[k].time_step = k
               /\ Range(worker[n].inhibited[k].sources) = SourcesAt(fired[n], k - 1)
          /\ FeedStarts(n) /\ worker[n].time_step > 0 =>
               /\ worker[n].emitted_pulse_sources = <<>>
               /\ \A i \in DOMAIN worker[n].layer_neurons :
                    worker[n].layer_neurons[i].last_received_pulse_step
                      = worker[n].time_step
          /\ FeedStarts(n) /\ worker[n].time_step = 0 =>
               worker[n].layer_neurons = main.self.layers[n + 1])
  /\ [][\A n \in DOMAIN worker :
          worker[n].pc = "recv" => sent'[n + 1] = sent[n + 1] /\ fired'[n] = fired[n]]_vars
\* a layer of two neurons was inhibited at time step 1 by both, which fired at
\* time step 0, and at time step 2 by none
C30_Witness ==
  /\ Returned
  /\ Len(worker[0].inhibited) = 2
  /\ Range(worker[0].inhibited[1].sources) = {0, 1}
  /\ worker[0].inhibited[2].sources = <<>>
  /\ SourcesAt(worker[0].fed, 2) # {}

\* ------------------------------------- the last pulse step of the neurons
\* the thread of layer n is within the feed of its iteration
Feeding(n) == worker[n].pc \in {"feed", "goahead"}
\* the last iteration the thread of layer n has finished (0 before any)
LastFinished(n) == IF worker[n].time_step = 0 THEN 0 ELSE worker[n].time_step - 1

\* C31: once a worker has finished iteration k every neuron of its layer has
\* last_received_pulse_step = k, whether or not Pulses were received; so every
\* feed_pulses of iteration k is called on neurons whose
\* last_received_pulse_step is k already, and every inhibition of iteration
\* k >= 1 on neurons whose last_received_pulse_step is k - 1.
C31_LastPulseStepIsIteration ==
  \A n \in DOMAIN worker : \A i \in DOMAIN worker[n].layer_neurons :
    worker[n].layer_neurons[i].last_received_pulse_step
      = (IF Feeding(n) THEN worker[n].time_step ELSE LastFinished(n))
\* a layer that received Pulses in iteration 0 and none in iteration 1 starts
\* iteration 2
C31_Witness ==
  \E n \in DOMAIN worker :
    /\ worker[n].pc = "recv"
    /\ worker[n].time_step = 2
    /\ SourcesAt(worker[n].fed, 0) # {}
    /\ SourcesAt(worker[n].fed, 1) = {}
    /\ \A i \in DOMAIN worker[n].layer_neurons :
         worker[n].layer_neurons[i].last_received_pulse_step = 1

\* --------------------------------------------- the reach of a transient fault
\* C32: a transient fault is causal in the output: in a trial that injects
\* TransientBitFlip{bit, step = s} on a register, every column j < s of the
\* damaged output is column j of the golden output.
C32_TransientIsCausal ==
  \A k \in DOMAIN sim.trials : \A f \in Faults(sim.trials[k].snn) :
    f.damage.kind = "TransientBitFlip" =>
      \A i \in DOMAIN sim.trials[k].output_with_damage :
        \A j \in 1..f.damage.time_step :
          sim.trials[k].output_with_damage[i][j] = sim.output_without_damages[i][j]

\* ------------------------------------------------------ run and simulate
\* a call of run, or a call of simulate
SpecRunOrSimulate == (Init \/ InitSim) /\ [][Next \/ NextSim]_vars

\* no cell of the boolean matrix m is true
AllFalse(m) == \A c \in Cells(m) : ~m[c[1]][c[2]]

\* C33: no neuron fires of itself: a worker calls feed_pulses and sends Pulses
\* only in an iteration in which it received a Pulse, so that a neuron whose
\* potential is at or above its threshold is silent until its layer receives
\* input; on an input that is all false the output of run is all false, in
\* the golden run of simulate and under every fault injected, and every
\* diff_count is 0.
C33_NoSpontaneousFiring ==
  /\ [](\A n \in DOMAIN worker :
          /\ Feeding(n) => worker[n].pulse_sources # <<>>
          /\ \A p \in fired[n] : SourcesAt(worker[n].fed, p[2]) # {})
  /\ [][\A n \in DOMAIN worker :
          sent'[n + 1] # sent[n + 1] => worker[n].pulse_sources # <<>>]_vars
  /\ [](Returned /\ AllFalse(input) =>
          AllFalse(collector.output) /\ \A n \in DOMAIN fired : fired[n] = {})
  /\ [](sim.pc # "idle" /\ input_matrix_is_valid(sim.input) /\ AllFalse(sim.input) =>
          /\ AllFalse(sim.output_without_damages)
          /\ \A k \in DOMAIN sim.trials : AllFalse(sim.trials[k].output_with_damage)
          /\ \A c \in Cells(sim.simulation_result_matrix) :
               sim.simulation_result_matrix[c[1]][c[2]].diff_count = 0)
\* run has returned from an input that is all false on a network with a
\* neuron whose potential at rest, -70, is above the threshold it reads
C33_Witness ==
  /\ Returned
  /\ AllFalse(input)
  /\ Len(input[1]) = MaxT
  /\ AllFalse(collector.output)
  /\ \E n \in DOMAIN worker : \E i \in DOMAIN worker[n].layer_neurons :
       F64GeZero(F64Sub(Unwrap(read_value(worker[n].layer_neurons[i].v_mem, Some(0))),
                        Unwrap(read_value(worker[n].layer_neurons[i].v_th, Some(0)))))

\* ------------------------------------------------------------ the collector
\* the channel write_results reads, and the messages it has read
LastChannel == sent[main.number_of_layers]
Collected == taken[main.number_of_layers]
\* the Pulse messages among the first k of msgs, as <<source, GoAhead before>>
PulsesAfter(msgs, k) ==
  {<<msgs[m].source, GoAheads(msgs, m)>> : m \in {m \in 1..k : msgs[m].type = "Pulse"}}

\* C34: write_results sets output[i][c] exactly for each Pulse(i) it received
\* after c GoAhead, never sets a cell back to false and never indexes outside
\* the matrix: the last channel carries at most T GoAhead, no Pulse after the
\* T-th, and every Pulse index is below the number of output neurons.
C34_CollectorInBounds ==
  /\ [](/\ ~collector.panicked
        /\ GoAheads(LastChannel, Len(LastChannel)) <= main.snn_time_steps_number
        /\ \A p \in PulsesAfter(LastChannel, Len(LastChannel)) :
             p[1] < Len(collector.output) /\ p[2] < main.snn_time_steps_number
        /\ \A c \in Cells(collector.output) :
             collector.output[c[1]][c[2]]
               <=> <<c[1] - 1, c[2] - 1>> \in PulsesAfter(LastChannel, Collected))
  /\ [][\A c \in Cells(collector.output) :
          collector.output[c[1]][c[2]] => collector'.output[c[1]][c[2]]]_vars
\* run has returned after write_results read a Pulse that follows a GoAhead
\* from a channel that carried fewer GoAhead than time steps
C34_Witness ==
  /\ Returned
  /\ GoAheads(LastChannel, Len(LastChannel)) < main.snn_time_steps_number
  /\ \E p \in PulsesAfter(LastChannel, Collected) :
       p[2] > 0 /\ collector.output[p[1] + 1][p[2] + 1]

\* ------------------------------------------------------------ the injection
\* the time steps the injection loop has completed
InjectedSteps == IF main.pc = "inject" THEN main.time_step ELSE main.snn_time_steps_number
\* the true cells of the first k columns of input, as <<input_node, time_step>>
TrueCells(inp, k) ==
  {<<c[1] - 1, c[2] - 1>> : c \in {d \in Cells(inp) : d[2] <= k /\ inp[d[1]][d[2]]}}

\* C35: the injection puts on the channel of layer 0, for t = 0..T-1 in order,
\* one Pulse(i) for each row i with input[i][t] true and then exactly one
\* GoAhead, also for a step with no true entry, and it is complete before any
\* layer worker is started: the channel of layer 0 carries exactly T GoAhead.
C35_InjectionBeforeWorkers ==
  /\ GoAheads(sent[0], Len(sent[0])) = InjectedSteps
  /\ PulsesAfter(sent[0], Len(sent[0])) = TrueCells(input, InjectedSteps)
  /\ Len(sent[0]) = InjectedSteps + Cardinality(TrueCells(input, InjectedSteps))
  /\ InjectedSteps > 0 => sent[0][Len(sent[0])] = GoAhead
  /\ main.pc = "inject" => \A n \in DOMAIN worker : worker[n].pc = "unspawned"
  /\ main.pc # "inject" => InjectedSteps = Len(input[1])
\* the injection of an input with a column of false and a later pulse has
\* ended, and the first worker is running
C35_Witness ==
  /\ worker[0].pc = "recv"
  /\ Len(input[1]) = MaxT
  /\ \E t \in 1..(MaxT - 1) : (\A i \in DOMAIN input : ~input[i][t])
                               /\ (\E i \in DOMAIN input : input[i][t + 1])
  /\ GoAheads(sent[0], Len(sent[0])) = MaxT

\* ------------------------------------------------- what a run leaves alone
\* the registers a run only reads, and those it writes
ParameterRegisters == {"v_th", "v_rest", "v_reset", "tau", "weights", "internal_weights"}
WrittenRegisters == {"v_mem", "add_reg", "mul_reg", "cmp_reg", "div_reg"}
\* neuron now differs from neuron then in nothing but last_received_pulse_step
\* and the stored values of v_mem and of the operator registers
SameFrame(now, then) ==
  /\ \A f \in ParameterRegisters : now[f] = then[f]
  /\ \A f \in WrittenRegisters : now[f].damage = then[f].damage
\* the layers the threads have not taken from self.layers
Unspawned == IF main.pc \in {"inject", "spawn"} THEN main.layer_nr ELSE main.number_of_layers

\* C36: during a run feed_pulses and the inhibition change, of the neuron they
\* are called on and of no other, only v_mem, last_received_pulse_step and the
\* stored values of add_reg, mul_reg, div_reg and cmp_reg: the stored values
\* of v_th, v_rest, v_reset, tau, weights and internal_weights and the fault of
\* every register stay as they were when the run began.
C36_RunWritesOnlyState ==
  /\ [](/\ \A n \in DOMAIN worker : \A i \in DOMAIN worker[n].layer_neurons :
             SameFrame(worker[n].layer_neurons[i], main.self.layers[n + 1][i])
        /\ network.layers = SubSeq(main.self.layers, Unspawned + 1, main.number_of_layers))
  /\ [][\A n \in DOMAIN worker : worker[n].pc = "feed" =>
          \A i \in DOMAIN worker[n].layer_neurons :
            i # worker[n].i + 1 =>
              worker'[n].layer_neurons[i] = worker[n].layer_neurons[i]]_vars
\* the first neuron of a layer of two, with a fault in its threshold, was fed
\* and fired: its potential and its comparator hold new values
C36_Witness ==
  \E n \in DOMAIN worker :
    /\ worker[n].pc = "goahead"
    /\ Len(worker[n].layer_neurons) = 2
    /\ <<0, worker[n].time_step>> \in fired[n]
    /\ worker[n].layer_neurons[1].v_th.damage.kind # "Working"
    /\ worker[n].layer_neurons[1].cmp_reg.value # main.self.layers[n + 1][1].cmp_reg.value
    /\ worker[n].layer_neurons[1].add_reg.value # main.self.layers[n + 1][1].add_reg.value

\* ------------------------------------- registers IntegrateAndFire leaves idle
\* the registers update_membrane_potential reads in the leaky arm only
LeakyOnly == {"v_rest", "tau", "mul_reg", "div_reg"}
\* every fault of the network snn is on a register of LeakyOnly
FaultIsIdle(snn) == \A f \in Faults(snn) : f.field \in LeakyOnly

\* C37: under IntegrateAndFire v_rest, tau, mul_reg and div_reg are never read:
\* a trial whose fault is on PotentialsAtRest, Multiplier or Divider gives the
\* golden output and adds nothing to any diff_count.
C37_IdleRegistersUnderIntegrate ==
  /\ [](sim.self.model = "IntegrateAndFire" =>
          \A k \in DOMAIN sim.trials :
            FaultIsIdle(sim.trials[k].snn) =>
              sim.trials[k].output_with_damage = sim.output_without_damages)
  /\ [][sim.self.model = "IntegrateAndFire"
          /\ Len(sim'.trials) = Len(sim.trials) + 1
          /\ FaultIsIdle(sim'.trials[Len(sim'.trials)].snn)
        => sim'.simulation_result_matrix = sim.simulation_result_matrix]_vars
\* under IntegrateAndFire a trial with a fault in mul_reg and one with a fault
\* in v_rest were run on an input to which the golden network fires
C37_Witness ==
  /\ sim.self.model = "IntegrateAndFire"
  /\ Len(sim.trials) = 2
  /\ \E f \in Faults(sim.trials[1].snn) : f.field = "mul_reg"
  /\ \E f \in Faults(sim.trials[2].snn) : f.field = "v_rest"
  /\ \E c \in Cells(sim.output_without_damages) : sim.output_without_damages[c[1]][c[2]]
  /\ \A c \in Cells(sim.simulation_result_matrix) :
       sim.simulation_result_matrix[c[1]][c[2]].diff_count = 0

\* ------------------------------------------------------- no read without step
\* the worker w, run alone on the channel inq, ends by a panic
RECURSIVE WorkerAborts(_, _, _, _, _, _, _)
AbortsAfter(r, inq, closed, time_steps, dt_ms, model) ==
  IF ~r.ok THEN FALSE
  ELSE WorkerAborts(r.w, inq, r.pos, closed, time_steps, dt_ms, model)
WorkerAborts(w, inq, pos, closed, time_steps, dt_ms, model) ==
  IF w.pc = "panicked" THEN TRUE
  ELSE AbortsAfter(WorkerStep(w, inq, pos, closed, time_steps, dt_ms, model), inq, closed,
                   time_steps, dt_ms, model)
\* the worker of layer layer_nr as it is spawned
Spawned(layers, layer_nr) ==
  [IdleWorker EXCEPT !.pc = "recv", !.layer_neurons = layers[layer_nr]]
\* some worker of the layers from layer_nr on ends by a panic
RECURSIVE LayersAbort(_, _, _, _, _, _)
LayersAbort(layers, layer_nr, inq, time_steps, dt_ms, model) ==
  IF layer_nr > Len(layers) THEN FALSE
  ELSE \/ WorkerAborts(Spawned(layers, layer_nr), inq, 0, layer_nr > 1, time_steps, dt_ms,
                       model)
       \/ LayersAbort(layers, layer_nr + 1,
                      WorkerRun(Spawned(layers, layer_nr), inq, 0, <<>>, layer_nr > 1,
                                time_steps, dt_ms, model),
                      time_steps, dt_ms, model)
\* a layer worker of run(self, inp) ends by a panic
RunAborts(self, inp) ==
  LayersAbort(self.layers, 1, Injected(inp, 0, Len(inp[1])), Len(inp[1]),
              time_step_duration_ms(self), self.model)

\* the network of the last run of simulate: the last trial's or, before the
\* first trial, the golden one
LastRun == IF sim.trials = <<>> THEN sim.self ELSE sim.trials[Len(sim.trials)].snn

\* C38: in run and in simulate every read of a register by a neuron or by an
\* arithmetic helper supplies the current step, so that no read fails for a
\* missing step and no layer worker aborts, whichever of StuckAt0, StuckAt1 and
\* TransientBitFlip is injected and on whichever register.
C38_NoMissingTimeStep ==
  /\ \A n \in DOMAIN worker : worker[n].pc # "panicked"
  /\ sim.pc # "idle" /\ input_matrix_is_valid(sim.input) =>
       ~RunAborts(LastRun, sim.input)
\* a trial whose fault is a TransientBitFlip on add_reg was run to its end, and
\* the flip changed the output
C38_Witness ==
  /\ sim.pc # "idle"
  /\ \E k \in DOMAIN sim.trials :
       /\ \E f \in Faults(sim.trials[k].snn) :
            f.damage.kind = "TransientBitFlip" /\ f.field = "add_reg"
       /\ sim.trials[k].output_with_damage # sim.output_without_damages

\* ------------------------------------------------ simulate without elements
\* C39: with faulty_elements empty apply_damage_to_snn injects no fault and
\* returns no damage detail, and simulate with at least one iteration aborts
\* and returns no SimulationResult (on a rectangular input, the first pass of
\* the loop panics); no trial is ever run without a fault.
C39_NoElementNoTrial ==
  /\ [](sim.faulty_elements = <<>> =>
          /\ sim.trials = <<>>
          /\ sim.iterations >= 1 =>
               /\ ~sim.result.some
               /\ input_matrix_is_valid(sim.input) => sim.pc # "done")
  /\ [](\A k \in DOMAIN sim.trials : Faults(sim.trials[k].snn) # {})
  /\ [][sim.faulty_elements = <<>> /\ sim.pc = "trial" /\ sim.iterations >= 1
        => sim'.pc = "panicked"]_vars
\* simulate, called with no element and two iterations, has panicked after a
\* golden run in which the network fired
C39_Witness ==
  /\ sim.pc = "panicked"
  /\ sim.faulty_elements = <<>>
  /\ sim.iterations = 2
  /\ sim.trials = <<>>
  /\ \E c \in Cells(sim.output_without_damages) : sim.output_without_damages[c[1]][c[2]]

====
